---- MODULE Spec2Model ----
(***************************************************************************)
(* A model of winstall's file-placement core: Operation::CopyFiles.execute *)
(* and the backup resolver Backup::open_for (src/src/winstall.rs).         *)
(*                                                                         *)
(* A path is a sequence of component strings; the filesystem is a function *)
(* from absolute paths to entries.  A file handle is a record holding the  *)
(* path it was opened on and its cursor; file content lives in the         *)
(* filesystem, so two handles on one file see each other's writes.  The    *)
(* accessed and modified times of the entries are kept beside the          *)
(* filesystem, in times, and now is the clock: one pass of the loop takes  *)
(* one tick.  cli is the command line get_options works on (cli.rs,        *)
(* uopt.rs): its arguments, the environment, the visitor and how far the   *)
(* walk over the arguments has come.                                       *)
(***************************************************************************)
EXTENDS Integers, Sequences, FiniteSets, TLC

VARIABLES op, fs, idx, ok, err_out, status, result, pre, last, times, now, cli

vars == <<op, fs, idx, ok, err_out, status, result, pre, last, times, now, cli>>

(***************************************************************************)
(* Bounds of the model.                                                    *)
(***************************************************************************)
\* longest batch of source operands
MaxFiles == 2
\* highest number of a numbered backup present before the run
MaxPrior == 2
\* longest prior content of the destination file
MaxLen == 3
\* longest command line
MaxArgs == 2
\* no numbered backup above this number can exist during a run
TopNumber == MaxPrior + MaxFiles + 1

(***************************************************************************)
(* Paths (std::path).                                                      *)
(***************************************************************************)
Container == <<"/", "w">>

IsAbsolute(p) == Len(p) > 0 /\ p[1] = "/"

\* Path::join: an absolute argument replaces the base
join(base, p) == IF IsAbsolute(p) THEN p ELSE base \o p

parent(p) == SubSeq(p, 1, Len(p) - 1)

file_name(p) == p[Len(p)]

with_file_name(p, n) == parent(p) \o <<n>>

IsPrefix(q, p) == Len(q) <= Len(p) /\ SubSeq(p, 1, Len(q)) = q

RECURSIVE display(_)
\* Path::display: the components joined by the separator
display(p) ==
    IF Len(p) = 0 THEN ""
    ELSE IF Len(p) = 1 THEN p[1]
    ELSE IF p[1] = "/" THEN "/" \o display(Tail(p))
    ELSE p[1] \o "/" \o display(Tail(p))

\* the prefix is removed when the path starts with it, else the path is kept
strip_prefix(file, prefix) ==
    IF IsPrefix(prefix, file) THEN SubSeq(file, Len(prefix) + 1, Len(file)) ELSE file

\* format!("{}.~{}~", name, n)
numbered_name(name, n) == name \o ".~" \o ToString(n) \o "~"

\* format!("{}{}", name, ext)
simple_name(name, ext) == name \o ext

(***************************************************************************)
(* The filesystem (std::fs).                                               *)
(***************************************************************************)
Dir(w) == [kind |-> "dir", data |-> <<>>, readable |-> TRUE, writable |-> w]

RegularFile(d, r, w) == [kind |-> "file", data |-> d, readable |-> r, writable |-> w]

exists(f, p) == p \in DOMAIN f

is_dir(f, p) == exists(f, p) /\ f[p].kind = "dir"

is_file(f, p) == exists(f, p) /\ f[p].kind = "file"

content(f, p) == f[p].data

Put(f, p, e) == [q \in DOMAIN f \cup {p} |-> IF q = p THEN e ELSE f[q]]

SetData(f, p, d) == [f EXCEPT ![p].data = d]

\* OpenOptions
ReadOnly == [read |-> TRUE, write |-> FALSE, create |-> FALSE, create_new |-> FALSE, truncate |-> FALSE]

ReadWriteCreate == [read |-> TRUE, write |-> TRUE, create |-> TRUE, create_new |-> FALSE, truncate |-> FALSE]

WriteCreateNew == [read |-> FALSE, write |-> TRUE, create |-> FALSE, create_new |-> TRUE, truncate |-> FALSE]

WriteCreateTruncate == [read |-> FALSE, write |-> TRUE, create |-> TRUE, create_new |-> FALSE, truncate |-> TRUE]

Handle(p) == [path |-> p, pos |-> 0]

Opened(e, f, p) == [err |-> e, fs |-> f, file |-> Handle(p)]

\* OpenOptions::open
open(f, p, o) ==
    IF exists(f, p) THEN
        IF o.create_new THEN Opened("AlreadyExists", f, p)
        ELSE IF f[p].kind = "dir" THEN Opened("IsADirectory", f, p)
        ELSE IF (o.read /\ ~f[p].readable) \/ (o.write /\ ~f[p].writable)
            THEN Opened("PermissionDenied", f, p)
        ELSE IF o.truncate THEN Opened("Ok", SetData(f, p, <<>>), p)
        ELSE Opened("Ok", f, p)
    ELSE
        IF ~(o.create \/ o.create_new) THEN Opened("NotFound", f, p)
        ELSE IF ~exists(f, parent(p)) THEN Opened("NotFound", f, p)
        ELSE IF ~is_dir(f, parent(p)) THEN Opened("NotADirectory", f, p)
        ELSE IF ~f[parent(p)].writable THEN Opened("PermissionDenied", f, p)
        ELSE Opened("Ok", Put(f, p, RegularFile(<<>>, TRUE, TRUE)), p)

Zeros(n) == [k \in 1..n |-> 0]

\* write at a cursor: bytes under the cursor are replaced, the rest is kept
WriteAt(old, pos, bytes) ==
    IF pos >= Len(old) THEN old \o Zeros(pos - Len(old)) \o bytes
    ELSE SubSeq(old, 1, pos) \o bytes \o SubSeq(old, pos + Len(bytes) + 1, Len(old))

\* io::copy: everything from the reader's cursor to its end is written at the
\* writer's cursor; both cursors advance
io_copy(f, from, to) ==
    LET bytes == SubSeq(content(f, from.path), from.pos + 1, Len(content(f, from.path)))
    IN [fs |-> SetData(f, to.path, WriteAt(content(f, to.path), to.pos, bytes)),
        from |-> [from EXCEPT !.pos = from.pos + Len(bytes)],
        to |-> [to EXCEPT !.pos = to.pos + Len(bytes)]]

\* File::set_len: the cursor is not moved
set_len(f, file, n) == SetData(f, file.path, SubSeq(content(f, file.path), 1, n))

\* Seek::rewind
rewind(file) == [file EXCEPT !.pos = 0]

Made(e, f) == [err |-> e, fs |-> f]

\* create_dir, had it not required the parent of the path to exist
create_dir_ignoring_parent(f, p) ==
    IF exists(f, p) THEN Made("AlreadyExists", f)
    ELSE Made("Ok", Put(f, p, Dir(TRUE)))

\* fs::create_dir
create_dir(f, p) ==
    IF exists(f, p) THEN Made("AlreadyExists", f)
    ELSE IF ~exists(f, parent(p)) THEN Made("NotFound", f)
    ELSE IF ~is_dir(f, parent(p)) THEN Made("NotADirectory", f)
    ELSE IF ~f[parent(p)].writable THEN Made("PermissionDenied", f)
    ELSE Made("Ok", Put(f, p, Dir(TRUE)))

RECURSIVE create_dir_all(_, _)
\* fs::create_dir_all: an existing directory is success
create_dir_all(f, p) ==
    IF is_dir(f, p) THEN Made("Ok", f)
    ELSE IF exists(f, p) THEN Made("AlreadyExists", f)
    ELSE IF Len(p) <= 1 THEN Made("NotFound", f)
    ELSE LET up == create_dir_all(f, parent(p))
         IN IF up.err # "Ok" THEN up ELSE create_dir(up.fs, p)

(***************************************************************************)
(* The backup policy (enum Backup) and its resolver (Backup::open_for).    *)
(***************************************************************************)
None == [kind |-> "None", ext |-> ""]

Numbered == [kind |-> "Numbered", ext |-> ""]

Simple(ext) == [kind |-> "Simple", ext |-> ext]

Existing(ext) == [kind |-> "Existing", ext |-> ext]

\* enum BackupOutcome
Removed(p) == [kind |-> "Removed", path |-> p]

BackedUp(p) == [kind |-> "BackedUp", path |-> p]

NoOutcome == [kind |-> "NoOutcome", path |-> <<>>]

Resolved(e, f, file, o) == [err |-> e, fs |-> f, file |-> file, outcome |-> o]

\* relocate, had the cursor of the destination been left where the copy to
\* the backup ended
relocate_without_rewind(f, file, backup, backup_path) ==
    LET copied == io_copy(f, file, backup)
        emptied == set_len(copied.fs, copied.from, 0)
    IN Resolved("Ok", emptied, copied.from, BackedUp(backup_path))

\* relocate, had the destination not been emptied before it is handed back
relocate_without_truncate(f, file, backup, backup_path) ==
    LET copied == io_copy(f, file, backup)
    IN Resolved("Ok", copied.fs, rewind(copied.from), BackedUp(backup_path))

\* the Ok arm shared by numbered and simple: the destination's bytes go to the
\* backup, then the destination is emptied and its cursor reset
relocate(f, file, backup, backup_path) ==
    LET copied == io_copy(f, file, backup)
        emptied == set_len(copied.fs, copied.from, 0)
    IN Resolved("Ok", emptied, rewind(copied.from), BackedUp(backup_path))

RECURSIVE numbered_loop(_, _, _, _)
\* the probing loop of numbered: the first backup name that can be created
\* exclusively is taken
numbered_loop(f, p, file, backup_count) ==
    LET backup_path == with_file_name(p, numbered_name(file_name(p), backup_count))
        o == open(f, backup_path, WriteCreateNew)
    IN IF o.err = "Ok" THEN relocate(o.fs, file, o.file, backup_path)
       ELSE IF o.err = "AlreadyExists" THEN numbered_loop(f, p, file, backup_count + 1)
       ELSE Resolved(o.err, f, file, NoOutcome)

\* numbered, had it opened the first backup name with create and truncate
\* instead of probing with exclusive create
numbered_clobbering(f, p, file) ==
    LET backup_path == with_file_name(p, numbered_name(file_name(p), 1))
        o == open(f, backup_path, WriteCreateTruncate)
    IN IF o.err = "Ok" THEN relocate(o.fs, file, o.file, backup_path)
       ELSE Resolved(o.err, f, file, NoOutcome)

\* numbered, had backup_count started at 0
numbered_from_zero(f, p, file) == numbered_loop(f, p, file, 0)

numbered(f, p, file) == numbered_loop(f, p, file, 1)

\* simple, had it created the backup exclusively
simple_exclusive(f, ext, p, file) ==
    LET backup_path == with_file_name(p, simple_name(file_name(p), ext))
        o == open(f, backup_path, WriteCreateNew)
    IN IF o.err = "Ok" THEN relocate(o.fs, file, o.file, backup_path)
       ELSE Resolved(o.err, f, file, NoOutcome)

simple(f, ext, p, file) ==
    LET backup_path == with_file_name(p, simple_name(file_name(p), ext))
        o == open(f, backup_path, WriteCreateTruncate)
    IN IF o.err = "Ok" THEN relocate(o.fs, file, o.file, backup_path)
       ELSE Resolved(o.err, f, file, NoOutcome)

\* existing, had it made a simple and then a numbered backup
existing_making_both(f, ext, p, file) ==
    LET first == simple(f, ext, p, file)
    IN IF first.err = "Ok" THEN numbered(first.fs, p, first.file) ELSE first

\* existing, had it never probed for a numbered backup
existing_always_simple(f, ext, p, file) == simple(f, ext, p, file)

\* existing, had it probed for a numbered backup of any number
existing_any_number(f, ext, p, file) ==
    IF \E n \in 1..TopNumber : exists(f, with_file_name(p, numbered_name(file_name(p), n)))
    THEN numbered(f, p, file)
    ELSE simple(f, ext, p, file)

existing(f, ext, p, file) ==
    LET numbered_backup_path == with_file_name(p, numbered_name(file_name(p), 1))
    IN IF exists(f, numbered_backup_path) THEN numbered(f, p, file)
       ELSE simple(f, ext, p, file)

open_for(f, backup, p, file) ==
    CASE backup.kind = "None" -> Resolved("Ok", f, file, Removed(p))
      [] backup.kind = "Numbered" -> numbered(f, p, file)
      [] backup.kind = "Simple" -> simple(f, backup.ext, p, file)
      [] backup.kind = "Existing" -> existing(f, backup.ext, p, file)

\* the closure open_destination of execute
open_destination(f, backup, p) ==
    LET o == open(f, p, ReadWriteCreate)
    IN IF o.err = "Ok" THEN open_for(o.fs, backup, p, o.file)
       ELSE Resolved(o.err, f, o.file, NoOutcome)

(***************************************************************************)
(* Operation::CopyFiles.execute: one pass of its loop over files.          *)
(***************************************************************************)
\* what one pass leaves behind: the filesystem, the lines written to
\* write_err, whether ok was cleared, whether the run panicked, the arm taken
Pass(f, lines, failed, panicked, tag, outcome) ==
    [fs |-> f, lines |-> lines, failed |-> failed, panicked |-> panicked,
     tag |-> tag, outcome |-> outcome]

Quoted(p) == "'" \o display(p) \o "'"

\* skip_directory, had it left ok alone
skip_directory_keeping_ok(f, file) ==
    Pass(f, <<"winstall: skipping directory " \o Quoted(file)>>,
         FALSE, FALSE, "skipped_directory", NoOutcome)

\* source.is_dir(): the operand is reported and skipped
skip_directory(f, file) ==
    Pass(f, <<"winstall: skipping directory " \o Quoted(file)>>,
         TRUE, FALSE, "skipped_directory", NoOutcome)

\* source_failed, had it reported every error kind as a missing file
source_failed_as_missing(f, file, e) ==
    Pass(f, <<"winstall: cannot stat " \o Quoted(strip_prefix(file, Container))
              \o ": No such file or directory">>,
         TRUE, FALSE, "source_not_found", NoOutcome)

\* the Err arm of the opening of the source
source_failed(f, file, e) ==
    IF e = "NotFound" THEN
        Pass(f, <<"winstall: cannot stat " \o Quoted(strip_prefix(file, Container))
                  \o ": No such file or directory">>,
             TRUE, FALSE, "source_not_found", NoOutcome)
    ELSE IF e = "PermissionDenied" THEN
        Pass(f, <<"winstall: cannot open " \o Quoted(strip_prefix(file, Container))
                  \o " for reading: Permission denied">>,
             TRUE, FALSE, "source_denied", NoOutcome)
    ELSE Pass(f, <<>>, FALSE, TRUE, "panic_open_source", NoOutcome)

\* directory_failed, had PermissionDenied been left to the panic of the other
\* error kinds
directory_failed_fatally(f, destination_folder, e) ==
    IF e = "NotFound" THEN
        Pass(f, <<"winstall: cannot create regular file "
                  \o Quoted(strip_prefix(destination_folder, Container))
                  \o ": No such file or directory">>,
             TRUE, FALSE, "directory_not_found", NoOutcome)
    ELSE Pass(f, <<>>, FALSE, TRUE, "panic_create_directory", NoOutcome)

\* the Err arm of the creation of the destination directory, AlreadyExists
\* apart
directory_failed(f, destination_folder, e) ==
    IF e = "NotFound" THEN
        Pass(f, <<"winstall: cannot create regular file "
                  \o Quoted(strip_prefix(destination_folder, Container))
                  \o ": No such file or directory">>,
             TRUE, FALSE, "directory_not_found", NoOutcome)
    ELSE IF e = "PermissionDenied" THEN
        Pass(f, <<"winstall: cannot create directory "
                  \o Quoted(strip_prefix(destination_folder, Container))
                  \o ": Permission denied">>,
             TRUE, FALSE, "directory_denied", NoOutcome)
    ELSE Pass(f, <<>>, FALSE, TRUE, "panic_create_directory", NoOutcome)

\* destination_failed, had it left ok alone
destination_failed_keeping_ok(f, destination_file, e, written) ==
    IF e = "PermissionDenied" THEN
        Pass(f, written \o <<"winstall: cannot stat "
                             \o Quoted(strip_prefix(destination_file, Container))
                             \o ": Permission denied">>,
             FALSE, FALSE, "destination_denied", NoOutcome)
    ELSE Pass(f, written, FALSE, TRUE, "panic_open_destination", NoOutcome)

\* the Err arm of open_destination
destination_failed(f, destination_file, e, written) ==
    IF e = "PermissionDenied" THEN
        Pass(f, written \o <<"winstall: cannot stat "
                             \o Quoted(strip_prefix(destination_file, Container))
                             \o ": Permission denied">>,
             TRUE, FALSE, "destination_denied", NoOutcome)
    ELSE Pass(f, written, FALSE, TRUE, "panic_open_destination", NoOutcome)

\* announce, had the backup never been mentioned
announce_without_backup(o, file, destination_file, outcome) ==
    LET removed == IF outcome.kind = "Removed"
                   THEN <<"removed " \o Quoted(strip_prefix(outcome.path, Container))>>
                   ELSE <<>>
    IN IF o.verbose
       THEN removed \o <<Quoted(strip_prefix(file, Container)) \o " -> "
                         \o Quoted(strip_prefix(destination_file, Container))>>
       ELSE <<>>

\* the lines of a pass that copies, in verbose mode
announce(o, file, destination_file, outcome) ==
    LET removed == IF outcome.kind = "Removed"
                   THEN <<"removed " \o Quoted(strip_prefix(outcome.path, Container))>>
                   ELSE <<>>
        extended_message ==
            IF outcome.kind = "BackedUp"
            THEN " (backup: " \o Quoted(strip_prefix(outcome.path, Container)) \o ")"
            ELSE ""
    IN IF o.verbose
       THEN removed \o <<Quoted(strip_prefix(file, Container)) \o " -> "
                         \o Quoted(strip_prefix(destination_file, Container))
                         \o extended_message>>
       ELSE <<>>

\* the tail of a pass: the destination is opened through the backup policy
\* and the source is streamed into it
copy_to_destination(f, o, file, from, destination_file, written) ==
    LET d == open_destination(f, o.backup, destination_file)
    IN IF d.err # "Ok" THEN destination_failed(d.fs, destination_file, d.err, written)
       ELSE Pass(io_copy(d.fs, from, d.file).fs,
                 written \o announce(o, file, destination_file, d.outcome),
                 FALSE, FALSE, "copied", d.outcome)

\* the removed line, which is written before the bytes are streamed
removed_line(o, outcome) ==
    IF o.verbose /\ outcome.kind = "Removed"
    THEN <<"removed " \o Quoted(strip_prefix(outcome.path, Container))>>
    ELSE <<>>

\* copy_failed, had the failure been reported and the loop gone on
copy_failed_going_on(f, o, from, destination_file, written, n) ==
    LET d == open_destination(f, o.backup, destination_file)
        bytes == SubSeq(content(d.fs, from.path), 1, n)
    IN Pass(SetData(d.fs, destination_file,
                    WriteAt(content(d.fs, destination_file), d.file.pos, bytes)),
            written \o removed_line(o, d.outcome),
            TRUE, FALSE, "panic_copy", d.outcome)

\* the Err arm of io::copy(&mut from, &mut to), n bytes having been written
\* before the error: panic!("unable to copy file: {}", e)
copy_failed(f, o, from, destination_file, written, n) ==
    LET d == open_destination(f, o.backup, destination_file)
        bytes == SubSeq(content(d.fs, from.path), 1, n)
    IN Pass(SetData(d.fs, destination_file,
                    WriteAt(content(d.fs, destination_file), d.file.pos, bytes)),
            written \o removed_line(o, d.outcome),
            FALSE, TRUE, "panic_copy", d.outcome)

\* FileTimes: the accessed and the modified time of an entry
FileTimes(accessed, modified) == [accessed |-> accessed, modified |-> modified]

\* the times the operating system keeps through a pass r made at time at on
\* the filesystem f (POSIX): an entry is stamped at its creation, its accessed
\* time when it is read and its modified time when it is written or emptied.
\* A pass that copies reads the source and writes the destination; under a
\* backup policy it also reads and empties the destination and writes the
\* backup.
stamped(t, f, r, o, file, at) ==
    LET source == join(Container, file)
        destination_file == join(join(Container, o.destination), <<file_name(file)>>)
        backed_up == r.tag = "copied" /\ r.outcome.kind = "BackedUp"
        read == (IF r.tag = "copied" THEN {source} ELSE {})
                \cup (IF backed_up THEN {destination_file} ELSE {})
        written == (IF r.tag = "copied" THEN {destination_file} ELSE {})
                   \cup (IF backed_up THEN {r.outcome.path} ELSE {})
    IN [p \in DOMAIN r.fs |->
            IF p \notin DOMAIN f THEN FileTimes(at, at)
            ELSE FileTimes(IF p \in read THEN at ELSE t[p].accessed,
                           IF p \in written THEN at ELSE t[p].modified)]

\* File::set_times
set_times(t, p, file_times) == [t EXCEPT ![p] = file_times]

\* the times after a pass: with preserve_timestamps the times the source had
\* when it was opened (file_times) are put on the destination once the copy
\* is done
times_after(t, f, r, o, file, at) ==
    LET source == join(Container, file)
        destination_file == join(join(Container, o.destination), <<file_name(file)>>)
        file_times == t[source]
    IN IF o.preserve_timestamps /\ r.tag = "copied"
       THEN set_times(stamped(t, f, r, o, file, at), destination_file, file_times)
       ELSE stamped(t, f, r, o, file, at)

\* execute_file, had the AlreadyExists arm of the directory step been left
\* to the panic of the other error kinds
execute_file_without_already_exists(f, o, file) ==
    LET source == join(Container, file)
        destination_folder == join(Container, o.destination)
        destination_file == join(destination_folder, <<file_name(file)>>)
        from == open(f, source, ReadOnly)
        made == IF o.make_all_directories
                THEN create_dir_all(f, destination_folder)
                ELSE create_dir(f, destination_folder)
        created == IF made.err = "Ok" /\ o.verbose
                   THEN <<"winstall: creating directory "
                          \o Quoted(strip_prefix(destination_folder, Container))>>
                   ELSE <<>>
    IN IF is_dir(f, source) THEN skip_directory(f, file)
       ELSE IF from.err # "Ok" THEN source_failed(f, file, from.err)
       ELSE IF made.err # "Ok" THEN directory_failed(f, destination_folder, made.err)
       ELSE copy_to_destination(made.fs, o, file, from.file, destination_file, created)

\* the body of `for file in files`
execute_file(f, o, file) ==
    LET source == join(Container, file)
        destination_folder == join(Container, o.destination)
        destination_file == join(destination_folder, <<file_name(file)>>)
        from == open(f, source, ReadOnly)
        made == IF o.make_all_directories
                THEN create_dir_all(f, destination_folder)
                ELSE create_dir(f, destination_folder)
        created == IF made.err = "Ok" /\ o.verbose
                   THEN <<"winstall: creating directory "
                          \o Quoted(strip_prefix(destination_folder, Container))>>
                   ELSE <<>>
    IN IF is_dir(f, source) THEN skip_directory(f, file)
       ELSE IF from.err # "Ok" THEN source_failed(f, file, from.err)
       ELSE IF made.err \notin {"Ok", "AlreadyExists"}
           THEN directory_failed(f, destination_folder, made.err)
       ELSE copy_to_destination(made.fs, o, file, from.file, destination_file, created)

(***************************************************************************)
(* Operation::CreateDirectories.execute: one pass of its loop over         *)
(* directories.                                                            *)
(***************************************************************************)
\* the Ok arm of fs::create_dir_all
directory_created(f, verbose, directory) ==
    Pass(f, IF verbose
            THEN <<"winstall: creating directory " \o Quoted(strip_prefix(directory, Container))>>
            ELSE <<>>,
         FALSE, FALSE, "created", NoOutcome)

\* directory_denied, had it left ok alone
directory_denied_keeping_ok(f, directory) ==
    Pass(f, <<"winstall: cannot create directory "
              \o Quoted(strip_prefix(directory, Container)) \o ": Permission denied">>,
         FALSE, FALSE, "directory_denied", NoOutcome)

\* the arm ErrorKind::PermissionDenied
directory_denied(f, directory) ==
    Pass(f, <<"winstall: cannot create directory "
              \o Quoted(strip_prefix(directory, Container)) \o ": Permission denied">>,
         TRUE, FALSE, "directory_denied", NoOutcome)

\* the body of `for directory in directories`
execute_directory(f, verbose, directory) ==
    LET made == create_dir_all(f, join(Container, directory))
    IN IF made.err = "Ok" THEN directory_created(made.fs, verbose, directory)
       ELSE IF made.err = "PermissionDenied" THEN directory_denied(made.fs, directory)
       ELSE Pass(made.fs, <<>>, FALSE, TRUE, "panic_create_directory", NoOutcome)

(***************************************************************************)
(* operations::install (src/src/operations.rs).  An argument is the        *)
(* sequence of its components, as Path::components yields them.            *)
(***************************************************************************)
\* the Result of install
InstallOk == <<"Ok">>

DirectoryPermissionDenied(p) == <<"Err", "DirectoryPermissionDenied", p>>

MissingOperand(what) == <<"Err", "MissingOperand", what>>

\* path_to_string: the path without a leading "./", as a string
path_to_string(p) == display(IF Len(p) > 0 /\ p[1] = "." THEN Tail(p) ELSE p)

\* what create_dir_all of install leaves behind: its Result and the filesystem
Installed(r, f) == [result |-> r, fs |-> f]

RECURSIVE install_reporting_target(_, _, _, _)
\* create_dir_all of install, had it reported the component that failed
install_reporting_target(f, base, path, k) ==
    IF k > Len(path) THEN Installed(InstallOk, f)
    ELSE LET aggregate == SubSeq(path, 1, k - 1)
             target == join(aggregate, <<path[k]>>)
             made == create_dir(f, join(base, target))
         IN IF made.err \in {"Ok", "AlreadyExists"}
            THEN install_reporting_target(made.fs, base, path, k + 1)
            ELSE Installed(DirectoryPermissionDenied(path_to_string(target)), made.fs)

RECURSIVE install_create_dir_all(_, _, _, _)
\* create_dir_all of install, from the component number k of path on
install_create_dir_all(f, base, path, k) ==
    IF k > Len(path) THEN Installed(InstallOk, f)
    ELSE LET aggregate == SubSeq(path, 1, k - 1)
             target == join(aggregate, <<path[k]>>)
             made == create_dir(f, join(base, target))
         IN IF made.err \in {"Ok", "AlreadyExists"}
            THEN install_create_dir_all(made.fs, base, path, k + 1)
            ELSE Installed(DirectoryPermissionDenied(path_to_string(aggregate)), made.fs)

\* the body of `for file in files` when io::copy fails after n bytes
execute_file_copy_failing(f, o, file, n) ==
    LET source == join(Container, file)
        destination_folder == join(Container, o.destination)
        destination_file == join(destination_folder, <<file_name(file)>>)
        from == open(f, source, ReadOnly)
        made == IF o.make_all_directories
                THEN create_dir_all(f, destination_folder)
                ELSE create_dir(f, destination_folder)
        created == IF made.err = "Ok" /\ o.verbose
                   THEN <<"winstall: creating directory "
                          \o Quoted(strip_prefix(destination_folder, Container))>>
                   ELSE <<>>
    IN copy_failed(made.fs, o, from.file, destination_file, created, n)

(***************************************************************************)
(* The command line (src/src/uopt.rs, src/src/cli.rs).  A string is the    *)
(* sequence of its characters; an Option is the empty sequence (None) or a *)
(* sequence of one element (Some).                                         *)
(***************************************************************************)
NoValue == <<>>

Some(x) == <<x>>

\* char::is_alphabetic, on the characters of the model
is_alphabetic(c) ==
    c \in {"a", "b", "c", "d", "e", "f", "g", "h", "i", "j", "k", "l", "m", "n", "o", "p", "q", "r", "s", "t", "u", "v", "w", "x", "y", "z",
           "A", "B", "C", "D", "E", "F", "G", "H", "I", "J", "K", "L", "M", "N", "O", "P", "Q", "R", "S", "T", "U", "V", "W", "X", "Y", "Z"}

\* str::starts_with
starts_with(s, prefix) == IsPrefix(prefix, s)

RECURSIVE split(_, _)
\* str::split on a one-character separator: the pieces between the separators
split(s, sep) ==
    IF \A k \in 1..Len(s) : s[k] # sep THEN <<s>>
    ELSE LET at == CHOOSE k \in 1..Len(s) :
                        s[k] = sep /\ \A j \in 1..(k - 1) : s[j] # sep
         IN <<SubSeq(s, 1, at - 1)>> \o split(SubSeq(s, at + 1, Len(s)), sep)

\* Options::default
DefaultOptions ==
    [verbose |-> FALSE, create_parents |-> FALSE, directory_args |-> FALSE,
     preserve_timestamps |-> FALSE, backup_type |-> "None", backup_suffix |-> <<"~">>,
     target_directory |-> NoValue, no_target_directory |-> FALSE, alternate |-> "Install"]

\* Error::InvalidArgument
InvalidArgument(value, source) == [kind |-> "InvalidArgument", value |-> value, source |-> source]

\* Visitor::new: the suffix of the environment replaces the default one.  The
\* field calls records the callbacks made so far.
NewVisitor(config) ==
    [error |-> NoValue,
     config |-> config,
     options |-> IF config.simple_backup_suffix # NoValue
                 THEN [DefaultOptions EXCEPT !.backup_suffix = config.simple_backup_suffix[1]]
                 ELSE DefaultOptions,
     arguments |-> <<>>,
     calls |-> <<>>]

\* what a callback hands back: the visitor as it left it and its hint
Hinted(v, hint) == [visitor |-> v, hint |-> hint]

\* to_strategy: Ok(Some(policy)), Ok(None) or Err
to_strategy(input, source) ==
    IF input = NoValue THEN [err |-> NoValue, policy |-> NoValue]
    ELSE IF input[1] \in {<<"n", "o", "n", "e">>, <<"o", "f", "f">>} THEN [err |-> NoValue, policy |-> Some("None")]
    ELSE IF input[1] \in {<<"s", "i", "m", "p", "l", "e">>, <<"n", "e", "v", "e", "r">>} THEN [err |-> NoValue, policy |-> Some("Simple")]
    ELSE IF input[1] \in {<<"e", "x", "i", "s", "t", "i", "n", "g">>, <<"n", "i", "l">>} THEN [err |-> NoValue, policy |-> Some("Existing")]
    ELSE IF input[1] \in {<<"n", "u", "m", "b", "e", "r", "e", "d">>, <<"t">>} THEN [err |-> NoValue, policy |-> Some("Numbered")]
    ELSE [err |-> Some(InvalidArgument(input[1], source)), policy |-> NoValue]

\* Visitor::set_backup_from
set_backup_from(v, provided) ==
    LET user == to_strategy(provided, "backup type")
        config == to_strategy(v.config.version_control, "$VERSION_CONTROL")
    IN IF user.err # NoValue THEN Hinted([v EXCEPT !.error = user.err], "Halt")
       ELSE IF user.policy # NoValue
           THEN Hinted([v EXCEPT !.options.backup_type = user.policy[1]], "None")
       ELSE IF config.err # NoValue THEN Hinted([v EXCEPT !.error = config.err], "Halt")
       ELSE IF config.policy # NoValue
           THEN Hinted([v EXCEPT !.options.backup_type = config.policy[1]], "None")
       ELSE Hinted([v EXCEPT !.options.backup_type = "Existing"], "None")

\* an override of the visitor of the tests: the hint it answers for the name
\* on (for every name when on is None), None for any other name
Override(on, hint) == [on |-> on, hint |-> hint]

\* OverridableVisitor::ignore_argument, ignore_flag, ignore_parameter
Ignore == Override(NoValue, "None")

Answer(override, name) ==
    IF override.on = NoValue \/ override.on[1] = name THEN override.hint ELSE "None"

\* OverridableVisitor::new over CollectingVisitor::new
OverridableVisitor(visit_argument, visit_flag, visit_parameter) ==
    [override_visit_argument |-> visit_argument,
     override_visit_flag |-> visit_flag,
     override_visit_parameter |-> visit_parameter,
     items |-> <<>>,
     calls |-> <<>>]

\* which implementation of the trait Visitor the visitor is
IsOverridable(v) == "items" \in DOMAIN v

\* OverridableVisitor::visit_argument, visit_flag, visit_parameter: the item
\* is collected unless the override answers Capture
overridable_visit_argument(v, argument) ==
    LET hint == Answer(v.override_visit_argument, argument)
        w == [v EXCEPT !.calls = Append(@, <<"argument", argument>>)]
    IN IF hint = "Capture" THEN Hinted(w, hint)
       ELSE Hinted([w EXCEPT !.items = Append(@, <<"argument", argument>>)], hint)

overridable_visit_flag(v, option) ==
    LET hint == Answer(v.override_visit_flag, option)
        w == [v EXCEPT !.calls = Append(@, <<"flag", option>>)]
    IN IF hint = "Capture" THEN Hinted(w, hint)
       ELSE Hinted([w EXCEPT !.items = Append(@, <<"flag", option>>)], hint)

overridable_visit_parameter(v, name, parameter) ==
    LET hint == Answer(v.override_visit_parameter, name)
        w == [v EXCEPT !.calls = Append(@, <<"parameter", name, parameter>>)]
    IN IF hint = "Capture" THEN Hinted(w, hint)
       ELSE Hinted([w EXCEPT !.items = Append(@, <<"parameter", name, parameter>>)], hint)

\* visit_argument, had it not asked for the options to stop
visit_argument_taking_options(v, argument) ==
    IF IsOverridable(v) THEN overridable_visit_argument(v, argument)
    ELSE
    Hinted([v EXCEPT !.arguments = Append(@, argument),
                     !.calls = Append(@, <<"argument", argument>>)],
           "None")

\* Visitor::visit_argument, of the implementation that the visitor is
visit_argument(v, argument) ==
    IF IsOverridable(v) THEN overridable_visit_argument(v, argument)
    ELSE
    Hinted([v EXCEPT !.arguments = Append(@, argument),
                     !.calls = Append(@, <<"argument", argument>>)],
           "StopOptions")

\* Visitor::visit_flag
visit_flag(v, option) ==
    IF IsOverridable(v) THEN overridable_visit_flag(v, option)
    ELSE
    LET w == [v EXCEPT !.calls = Append(@, <<"flag", option>>)]
    IN IF option = <<"h", "e", "l", "p">> THEN Hinted([w EXCEPT !.options.alternate = "Help"], "Halt")
       ELSE IF option = <<"v", "e", "r", "s", "i", "o", "n">>
           THEN Hinted([w EXCEPT !.options.alternate = "Version"], "Halt")
       ELSE IF option \in {<<"v">>, <<"v", "e", "r", "b", "o", "s", "e">>}
           THEN Hinted([w EXCEPT !.options.verbose = TRUE], "None")
       ELSE IF option = <<"D">> THEN Hinted([w EXCEPT !.options.create_parents = TRUE], "None")
       ELSE IF option \in {<<"d">>, <<"d", "i", "r", "e", "c", "t", "o", "r", "y">>}
           THEN Hinted([w EXCEPT !.options.directory_args = TRUE], "None")
       ELSE IF option \in {<<"p">>, <<"p", "r", "e", "s", "e", "r", "v", "e", "-", "t", "i", "m", "e", "s", "t", "a", "m", "p", "s">>}
           THEN Hinted([w EXCEPT !.options.preserve_timestamps = TRUE], "None")
       ELSE IF option \in {<<"T">>, <<"n", "o", "-", "t", "a", "r", "g", "e", "t", "-", "d", "i", "r", "e", "c", "t", "o", "r", "y">>}
           THEN Hinted([w EXCEPT !.options.no_target_directory = TRUE], "None")
       ELSE IF option = <<"b">> THEN set_backup_from(w, NoValue)
       ELSE IF option \in {<<"b", "a", "c", "k", "u", "p">>, <<"S">>, <<"t">>, <<"g">>, <<"m">>, <<"o">>} THEN Hinted(w, "Capture")
       ELSE Hinted(w, "None")

\* Visitor::visit_parameter
visit_parameter(v, name, parameter) ==
    IF IsOverridable(v) THEN overridable_visit_parameter(v, name, parameter)
    ELSE
    LET w == [v EXCEPT !.calls = Append(@, <<"parameter", name, parameter>>)]
    IN IF name = <<"b", "a", "c", "k", "u", "p">> THEN set_backup_from(w, parameter)
       ELSE IF name \in {<<"S">>, <<"s", "u", "f", "f", "i", "x">>} THEN
           IF parameter = Some(<<>>)
               THEN Hinted([w EXCEPT !.options.backup_suffix = <<"~">>], "None")
           ELSE IF parameter # NoValue
               THEN Hinted([w EXCEPT !.options.backup_suffix = parameter[1]], "None")
           ELSE Hinted(w, "None")
       ELSE IF name \in {<<"t">>, <<"t", "a", "r", "g", "e", "t", "-", "d", "i", "r", "e", "c", "t", "o", "r", "y">>} THEN
           IF parameter # NoValue
               THEN Hinted([w EXCEPT !.options.target_directory = parameter], "None")
           ELSE Hinted(w, "None")
       ELSE Hinted(w, "None")

\* is_long and is_short of uopt::visit
is_long(argument) ==
    starts_with(argument, <<"-", "-">>) /\ Len(argument) > 2 /\ is_alphabetic(argument[3])

is_short(argument) ==
    starts_with(argument, <<"-">>) /\ Len(argument) > 1 /\ is_alphabetic(argument[2])

\* where uopt::visit stands after an argument: the visitor, whether options
\* are still taken, whether the argument that followed was taken with it and
\* whether the walk was halted
Walked(v, take_options, took_next, halted) ==
    [visitor |-> v, take_options |-> take_options, took_next |-> took_next,
     halted |-> halted]

\* after_parameter, had the argument that was handed over as the parameter
\* not been passed over
after_parameter_keeping_next(p, take_options, took_next) ==
    IF p.hint = "Halt" THEN Walked(p.visitor, take_options, FALSE, TRUE)
    ELSE Walked(p.visitor, take_options /\ p.hint # "StopOptions", FALSE, FALSE)

\* the match on the hint of visit_parameter, and the peekable.next() after it
\* when the parameter was the argument that followed
after_parameter(p, take_options, took_next) ==
    IF p.hint = "Halt" THEN Walked(p.visitor, take_options, FALSE, TRUE)
    ELSE Walked(p.visitor, take_options /\ p.hint # "StopOptions", took_next, FALSE)

\* the arm of a long option; following is the argument peeked at, if any
visit_long(v, long, following) ==
    LET trimmed == SubSeq(long, 3, Len(long))
        pieces == split(trimmed, "=")
        flagged == visit_flag(v, trimmed)
    IN IF Len(pieces) >= 2
       THEN after_parameter(visit_parameter(v, pieces[1], Some(pieces[2])), TRUE, FALSE)
       ELSE IF flagged.hint = "Capture"
       THEN after_parameter(visit_parameter(flagged.visitor, trimmed, following), TRUE, TRUE)
       ELSE Walked(flagged.visitor, TRUE, FALSE, FALSE)

RECURSIVE visit_short(_, _, _, _, _)
\* the arm of a cluster of short options, from its character number from on
visit_short(v, trimmed, from, take_options, following) ==
    IF from > Len(trimmed) THEN Walked(v, take_options, FALSE, FALSE)
    ELSE LET flagged == visit_flag(v, <<trimmed[from]>>)
         IN IF flagged.hint = "StopOptions"
                THEN visit_short(flagged.visitor, trimmed, from + 1, FALSE, following)
            ELSE IF flagged.hint = "Capture" THEN
                IF from < Len(trimmed)
                THEN after_parameter(
                         visit_parameter(flagged.visitor, <<trimmed[from]>>,
                                         Some(SubSeq(trimmed, from + 1, Len(trimmed)))),
                         take_options, FALSE)
                ELSE after_parameter(visit_parameter(flagged.visitor, trimmed, following),
                                     take_options, TRUE)
            ELSE IF flagged.hint = "Halt"
                THEN Walked(flagged.visitor, take_options, FALSE, TRUE)
            ELSE visit_short(flagged.visitor, trimmed, from + 1, take_options, following)

\* the arm of anything else
visit_plain(v, arg, take_options) ==
    LET r == visit_argument(v, arg)
    IN Walked(r.visitor, take_options /\ r.hint # "StopOptions", FALSE, r.hint = "Halt")

\* visit_one, had -- been handed to the visitor like any other argument
visit_one_delivering_dashes(v, argument, take_options, following) ==
    IF take_options /\ is_long(argument) THEN visit_long(v, argument, following)
    ELSE IF take_options /\ is_short(argument)
        THEN visit_short(v, SubSeq(argument, 2, Len(argument)), 1, take_options, following)
    ELSE visit_plain(v, argument, take_options)

\* one turn of the loop of uopt::visit, on argument with following peeked at
visit_one(v, argument, take_options, following) ==
    IF take_options /\ argument = <<"-", "-">> THEN Walked(v, FALSE, FALSE, FALSE)
    ELSE IF take_options /\ is_long(argument) THEN visit_long(v, argument, following)
    ELSE IF take_options /\ is_short(argument)
        THEN visit_short(v, SubSeq(argument, 2, Len(argument)), 1, take_options, following)
    ELSE visit_plain(v, argument, take_options)

\* Result of get_options
Err(e) == [kind |-> "Err", error |-> e, arguments |-> <<>>, options |-> DefaultOptions]

Ok(arguments, options) ==
    [kind |-> "Ok", error |-> NoValue, arguments |-> arguments, options |-> options]

\* get_options is entered with the arguments args and the environment config
CommandLine(args, config) ==
    [args |-> args, config |-> config, next |-> 1, take_options |-> TRUE,
     visitor |-> NewVisitor(config), status |-> "visiting", result |-> <<>>]

\* no command line: the executor is entered directly
NoCommandLine == CommandLine(<<>>, [version_control |-> NoValue, simple_backup_suffix |-> NoValue])

(***************************************************************************)
(* The runs that are explored.  Every source operand lies outside the      *)
(* destination directory, so a source is never its own destination, and    *)
(* every backup suffix is non-empty, as the option layer turns an empty    *)
(* suffix into "~".  The destination may hold numbered backups with gaps,  *)
(* since the directory is not only written by this program.                *)
(***************************************************************************)
\* the source operands: two regular files of one name, a directory, a path
\* that does not exist and a file that may not be read
Sources == {<<"s1", "a.txt">>, <<"s2", "a.txt">>, <<"d">>, <<"missing.txt">>, <<"ro", "a.txt">>}

Suffixes == {"~", ".bak"}

Policies == {None, Numbered} \cup {Simple(x) : x \in Suffixes} \cup {Existing(x) : x \in Suffixes}

\* the source operands that are regular, readable files
RegularSources == {<<"s1", "a.txt">>, <<"s2", "a.txt">>}

\* the batches of any operands, and those of regular files only
Batches == UNION {[1..n -> Sources] : n \in 1..MaxFiles}

RegularBatches == UNION {[1..n -> RegularSources] : n \in 1..MaxFiles}

Destination == <<"dest">>

DestinationFolder == join(Container, Destination)

DestinationFile == join(DestinationFolder, <<"a.txt">>)

NumberedPath(n) == with_file_name(DestinationFile, numbered_name("a.txt", n))

SimplePath(x) == with_file_name(DestinationFile, simple_name("a.txt", x))

\* the content a destination of length n holds before the run
OldBytes(n) == [k \in 1..n |-> 6 + k]

\* the tree the sources live in
SourceTree ==
    LET w(p) == join(Container, p)
    IN (<<"/">> :> Dir(TRUE)) @@ (Container :> Dir(TRUE))
       @@ (w(<<"s1">>) :> Dir(TRUE)) @@ (w(<<"s2">>) :> Dir(TRUE))
       @@ (w(<<"ro">>) :> Dir(TRUE)) @@ (w(<<"d">>) :> Dir(TRUE))
       @@ (w(<<"s1", "a.txt">>) :> RegularFile(<<1, 2>>, TRUE, TRUE))
       @@ (w(<<"s2", "a.txt">>) :> RegularFile(<<3>>, TRUE, TRUE))
       @@ (w(<<"ro", "a.txt">>) :> RegularFile(<<4>>, FALSE, FALSE))

\* a destination directory holding the backups numbered in ns, the simple
\* backups of the suffixes in xs and, when len >= 0, a destination file
DestinationTree(len, ns, xs) ==
    [p \in {DestinationFolder}
           \cup (IF len >= 0 THEN {DestinationFile} ELSE {})
           \cup {NumberedPath(n) : n \in ns}
           \cup {SimplePath(x) : x \in xs} |->
        IF p = DestinationFolder THEN Dir(TRUE)
        ELSE IF p = DestinationFile THEN RegularFile(OldBytes(len), TRUE, TRUE)
        ELSE IF \E n \in ns : p = NumberedPath(n)
            THEN RegularFile(<<50 + (CHOOSE n \in ns : p = NumberedPath(n))>>, TRUE, TRUE)
        ELSE RegularFile(<<40>>, TRUE, TRUE)]

\* every destination: missing, or holding any of the prior files
Trees ==
    {SourceTree}
    \cup {DestinationTree(len, ns, xs) @@ SourceTree :
            len \in -1..MaxLen, ns \in SUBSET (1..MaxPrior), xs \in {{}, Suffixes}}

\* a few destinations: missing, empty, or holding a file with or without
\* its first numbered backup
FewTrees ==
    {SourceTree}
    \cup {DestinationTree(len, ns, {}) @@ SourceTree :
            len \in {-1, MaxLen}, ns \in {{}, {1}}}

\* the clock when execute is entered
StartOfRun == 2

\* the times of the entries before the run: the sources were last touched
\* after everything else
InitialTimes(f) ==
    [p \in DOMAIN f |->
        IF \E s \in Sources : IsPrefix(join(Container, s), p) THEN FileTimes(1, 1)
        ELSE FileTimes(0, 0)]

NoPass == [index |-> 0, file |-> <<>>, tag |-> "none", outcome |-> NoOutcome, lines |-> <<>>,
           failed |-> FALSE, at |-> 0, times |-> <<>>]

\* execute is entered with one of the batches on one of the trees
InitOver(batches, trees) ==
    /\ op \in [files : batches, destination : {Destination}, backup : Policies,
               preserve_timestamps : {FALSE},
               make_all_directories : BOOLEAN, verbose : BOOLEAN]
    /\ fs \in trees
    /\ idx = 1
    /\ ok = TRUE
    /\ err_out = <<>>
    /\ status = "running"
    /\ result = <<>>
    /\ pre = fs
    /\ last = NoPass
    /\ times = InitialTimes(fs)
    /\ now = StartOfRun
    /\ cli = NoCommandLine

\* regular files copied onto every destination
Init == InitOver(RegularBatches, Trees)

\* any operands copied onto a few destinations
InitBatch == InitOver(Batches, FewTrees)

\* ProcessFile, had the loop taken the files from the end of the list
ProcessFileFromTheEnd ==
    /\ status = "running"
    /\ idx <= Len(op.files)
    /\ LET file == op.files[Len(op.files) + 1 - idx]
           r == execute_file(fs, op, file)
       IN /\ fs' = r.fs
          /\ err_out' = err_out \o r.lines
          /\ ok' = (ok /\ ~r.failed)
          /\ status' = IF r.panicked THEN "panicked" ELSE "running"
          /\ idx' = IF r.panicked THEN idx ELSE idx + 1
          /\ pre' = fs
          /\ last' = [index |-> idx, file |-> file, tag |-> r.tag,
                      outcome |-> r.outcome, lines |-> r.lines, failed |-> r.failed,
                      at |-> now, times |-> times]
          /\ times' = times_after(times, fs, r, op, file, now)
          /\ now' = now + 1
    /\ UNCHANGED <<op, result, cli>>

\* one pass of the loop of execute, for files[idx]
ProcessFile ==
    /\ status = "running"
    /\ idx <= Len(op.files)
    /\ LET r == execute_file(fs, op, op.files[idx])
       IN /\ fs' = r.fs
          /\ err_out' = err_out \o r.lines
          /\ ok' = (ok /\ ~r.failed)
          /\ status' = IF r.panicked THEN "panicked" ELSE "running"
          /\ idx' = IF r.panicked THEN idx ELSE idx + 1
          /\ pre' = fs
          /\ last' = [index |-> idx, file |-> op.files[idx], tag |-> r.tag,
                      outcome |-> r.outcome, lines |-> r.lines, failed |-> r.failed,
                      at |-> now, times |-> times]
          /\ times' = times_after(times, fs, r, op, op.files[idx], now)
          /\ now' = now + 1
    /\ UNCHANGED <<op, result, cli>>

\* the loop is over: execute returns ok
Return ==
    /\ status = "running"
    /\ idx > Len(op.files)
    /\ status' = "returned"
    /\ result' = <<ok>>
    /\ UNCHANGED <<op, fs, idx, ok, err_out, pre, last, times, now, cli>>

Next == ProcessFile \/ Return

Spec == Init /\ [][Next]_vars

SpecBatch == InitBatch /\ [][Next]_vars

(***************************************************************************)
(* Runs onto destination directories of several segments, some of which    *)
(* are missing or may not be written.                                      *)
(***************************************************************************)
\* destinations of one to three segments, under a writable and under a
\* read-only directory
Destinations ==
    {<<"dest">>, <<"dest", "sub_one">>, <<"dest", "sub_one", "sub_two">>,
     <<"locked">>, <<"locked", "sub">>, <<"locked", "sub", "dir">>}

\* the first depth segments of dest/sub_one/sub_two exist; each existing
\* segment holds a file a.txt when held is "file" (writable) or "readonly"
NestedTree(depth, held) ==
    LET nested == <<"dest", "sub_one", "sub_two">>
        folders == {join(Container, SubSeq(nested, 1, k)) : k \in 1..depth}
        files == IF held = "none" THEN {} ELSE {join(d, <<"a.txt">>) : d \in folders}
    IN [p \in folders \cup files |->
            IF p \in folders THEN Dir(TRUE)
            ELSE RegularFile(OldBytes(1), TRUE, held = "file")]

\* the directory that may not be written
LockedTree == join(Container, <<"locked">>) :> Dir(FALSE)

DirTrees ==
    {NestedTree(depth, held) @@ LockedTree @@ SourceTree :
        depth \in 0..3, held \in {"none", "file", "readonly"}}

\* the batches of a regular file, a directory, a missing and an unreadable file
DirBatches == UNION {[1..n -> Sources \ {<<"s2", "a.txt">>}] : n \in 1..MaxFiles}

\* any operands copied onto any of the destinations
InitDirs ==
    /\ op \in [files : DirBatches, destination : Destinations, backup : {None, Numbered},
               preserve_timestamps : {FALSE},
               make_all_directories : BOOLEAN, verbose : BOOLEAN]
    /\ fs \in DirTrees
    /\ idx = 1
    /\ ok = TRUE
    /\ err_out = <<>>
    /\ status = "running"
    /\ result = <<>>
    /\ pre = fs
    /\ last = NoPass
    /\ times = InitialTimes(fs)
    /\ now = StartOfRun
    /\ cli = NoCommandLine

SpecDirs == InitDirs /\ [][Next]_vars

(***************************************************************************)
(* Runs with and without preserve_timestamps.                              *)
(***************************************************************************)
InitTimes ==
    /\ op \in [files : RegularBatches, destination : {Destination},
               backup : {None, Numbered, Simple("~")},
               preserve_timestamps : BOOLEAN,
               make_all_directories : {FALSE}, verbose : {FALSE}]
    /\ fs \in FewTrees
    /\ idx = 1
    /\ ok = TRUE
    /\ err_out = <<>>
    /\ status = "running"
    /\ result = <<>>
    /\ pre = fs
    /\ last = NoPass
    /\ times = InitialTimes(fs)
    /\ now = StartOfRun
    /\ cli = NoCommandLine

SpecTimes == InitTimes /\ [][Next]_vars

(***************************************************************************)
(* Runs whose operands may name the file the copy is aimed at: dest/a.txt  *)
(* copied into dest.                                                       *)
(***************************************************************************)
AliasSources == {<<"dest", "a.txt">>, <<"s1", "a.txt">>}

AliasBatches == UNION {[1..n -> AliasSources] : n \in 1..MaxFiles}

InitAlias ==
    /\ op \in [files : AliasBatches, destination : {Destination}, backup : Policies,
               preserve_timestamps : {FALSE},
               make_all_directories : BOOLEAN, verbose : BOOLEAN]
    /\ fs \in FewTrees
    /\ idx = 1
    /\ ok = TRUE
    /\ err_out = <<>>
    /\ status = "running"
    /\ result = <<>>
    /\ pre = fs
    /\ last = NoPass
    /\ times = InitialTimes(fs)
    /\ now = StartOfRun
    /\ cli = NoCommandLine

SpecAlias == InitAlias /\ [][Next]_vars

(***************************************************************************)
(* Runs of get_options: a command line of up to MaxArgs arguments is       *)
(* walked by uopt::visit, one argument (with the parameter it takes) at a  *)
(* time, and get_options returns when the walk ends or is halted.  The     *)
(* executor does not run.                                                  *)
(***************************************************************************)
\* the command lines over a pool of arguments
ArgLists(pool) == UNION {[1..n -> pool] : n \in 0..MaxArgs}

\* the values of the backup table
BackupValues ==
    {<<"n", "o", "n", "e">>, <<"o", "f", "f">>,
     <<"s", "i", "m", "p", "l", "e">>, <<"n", "e", "v", "e", "r">>,
     <<"e", "x", "i", "s", "t", "i", "n", "g">>, <<"n", "i", "l">>,
     <<"n", "u", "m", "b", "e", "r", "e", "d">>, <<"t">>}

\* arguments about the backup policy, a flag and an operand
BackupPool ==
    {<<"-", "b">>, <<"-", "-", "b", "a", "c", "k", "u", "p">>,
     <<"-", "-", "b", "a", "c", "k", "u", "p", "=", "n", "o", "n", "e">>,
     <<"-", "-", "b", "a", "c", "k", "u", "p", "=", "o", "f", "f">>,
     <<"-", "-", "b", "a", "c", "k", "u", "p", "=", "s", "i", "m", "p", "l", "e">>,
     <<"-", "-", "b", "a", "c", "k", "u", "p", "=", "n", "e", "v", "e", "r">>,
     <<"-", "-", "b", "a", "c", "k", "u", "p", "=", "e", "x", "i", "s", "t", "i", "n", "g">>,
     <<"-", "-", "b", "a", "c", "k", "u", "p", "=", "n", "i", "l">>,
     <<"-", "-", "b", "a", "c", "k", "u", "p", "=", "n", "u", "m", "b", "e", "r", "e", "d">>,
     <<"-", "-", "b", "a", "c", "k", "u", "p", "=", "t">>,
     <<"-", "-", "b", "a", "c", "k", "u", "p", "=", "b", "a", "d">>,
     <<"-", "-", "b", "a", "c", "k", "u", "p", "=">>,
     <<"-", "-", "b", "a", "c", "k", "u", "p", "=", "n", "o", "n", "e", "=", "x">>,
     <<"-", "v">>, <<"a", ".", "t", "x", "t">>}

\* $VERSION_CONTROL: unset, a value of the table or another value
VersionControls == {NoValue, Some(<<"b", "a", "d">>)} \cup {Some(x) : x \in BackupValues}

\* arguments about the backup suffix, a flag and an operand
SuffixPool ==
    {<<"-", "S">>, <<"a", "b", "c">>,
     <<"-", "-", "s", "u", "f", "f", "i", "x", "=", "a", "b", "c">>,
     <<"-", "-", "s", "u", "f", "f", "i", "x", "=">>,
     <<"-", "-", "s", "u", "f", "f", "i", "x", "=", "a", "=", "b">>,
     <<"-", "S", "a", "b", "c">>, <<"-", "v", "S">>, <<"-", "v">>,
     <<"-", "-", "s", "u", "f", "f", "i", "x">>, <<"a", ".", "t", "x", "t">>,
     <<>>}

\* $SIMPLE_BACKUP_SUFFIX: unset or set
SimpleBackupSuffixes == {NoValue, Some(<<"d", "e", "f">>)}

\* the executor stands still
Idle ==
    /\ op = [files |-> <<>>, destination |-> Destination, backup |-> None,
             preserve_timestamps |-> FALSE, make_all_directories |-> FALSE,
             verbose |-> FALSE]
    /\ fs = SourceTree
    /\ idx = 1
    /\ ok = TRUE
    /\ err_out = <<>>
    /\ status = "idle"
    /\ result = <<>>
    /\ pre = fs
    /\ last = NoPass
    /\ times = InitialTimes(fs)
    /\ now = StartOfRun

InitBackupOptions ==
    /\ Idle
    /\ \E args \in ArgLists(BackupPool), version_control \in VersionControls :
        cli = CommandLine(args, [version_control |-> version_control,
                                 simple_backup_suffix |-> NoValue])

InitSuffixOptions ==
    /\ Idle
    /\ \E args \in ArgLists(SuffixPool), suffix \in SimpleBackupSuffixes :
        cli = CommandLine(args, [version_control |-> NoValue,
                                 simple_backup_suffix |-> suffix])

\* one turn of `while let Some(argument) = peekable.next()` in uopt::visit
Visit ==
    /\ cli.status = "visiting"
    /\ cli.next <= Len(cli.args)
    /\ LET following == IF cli.next < Len(cli.args) THEN Some(cli.args[cli.next + 1])
                        ELSE NoValue
           r == visit_one(cli.visitor, cli.args[cli.next], cli.take_options, following)
       IN cli' = [cli EXCEPT !.visitor = r.visitor,
                             !.take_options = r.take_options,
                             !.next = cli.next + (IF r.took_next THEN 2 ELSE 1),
                             !.status = IF r.halted THEN "halted" ELSE "visiting"]
    /\ UNCHANGED <<op, fs, idx, ok, err_out, status, result, pre, last, times, now>>

\* uopt::visit is over: get_options returns the error of the visitor, or its
\* arguments and options
GetOptionsReturn ==
    /\ ~IsOverridable(cli.visitor)
    /\ \/ cli.status = "halted"
       \/ cli.status = "visiting" /\ cli.next > Len(cli.args)
    /\ cli' = [cli EXCEPT !.status = "returned",
                          !.result = IF cli.visitor.error # NoValue
                                     THEN Err(cli.visitor.error[1])
                                     ELSE Ok(cli.visitor.arguments, cli.visitor.options)]
    /\ UNCHANGED <<op, fs, idx, ok, err_out, status, result, pre, last, times, now>>

NextOptions == Visit \/ GetOptionsReturn

SpecBackupOptions == InitBackupOptions /\ [][NextOptions]_vars

SpecSuffixOptions == InitSuffixOptions /\ [][NextOptions]_vars

\* flags, options that take a value, values, operands and the end of options
OperandPool ==
    {<<"-", "v">>, <<"-", "D">>, <<"-", "S">>, <<"-", "t">>,
     <<"a", "b", "c">>, <<"a", ".", "t", "x", "t">>, <<"-", "-">>}

\* command lines long enough to hold an option with its value, an operand
\* and an argument after it
InitOperands ==
    /\ Idle
    /\ \E n \in 0..(MaxArgs + 2) : \E args \in [1..n -> OperandPool] :
        cli = CommandLine(args, [version_control |-> NoValue,
                                 simple_backup_suffix |-> NoValue])

SpecOperands == InitOperands /\ [][NextOptions]_vars

\* options whose callbacks answer Halt (--help, --version, and the backup
\* options when a value is not in the table), a flag and an operand
HaltPool ==
    {<<"-", "-", "h", "e", "l", "p">>,
     <<"-", "-", "v", "e", "r", "s", "i", "o", "n">>, <<"-", "v">>,
     <<"-", "b", "v">>,
     <<"-", "-", "b", "a", "c", "k", "u", "p", "=", "b", "a", "d">>,
     <<"a", ".", "t", "x", "t">>}

InitHalt ==
    /\ Idle
    /\ \E args \in ArgLists(HaltPool), version_control \in {NoValue, Some(<<"b", "a", "d">>)} :
        cli = CommandLine(args, [version_control |-> version_control,
                                 simple_backup_suffix |-> NoValue])

SpecHalt == InitHalt /\ [][NextOptions]_vars

\* the options of the Unix install that are accepted and ignored, each with
\* its value when it takes one
UnixOptions ==
    {<<<<"-", "C">>>>,
     <<<<"-", "-", "c", "o", "m", "p", "a", "r", "e">>>>,
     <<<<"-", "c">>>>,
     <<<<"-", "-", "d", "e", "b", "u", "g">>>>,
     <<<<"-", "g">>, <<"w", "h", "e", "e", "l">>>>,
     <<<<"-", "g", "w", "h", "e", "e", "l">>>>,
     <<<<"-", "-", "g", "r", "o", "u", "p", "=", "w", "h", "e", "e", "l">>>>,
     <<<<"-", "m">>, <<"7", "4", "4">>>>,
     <<<<"-", "-", "m", "o", "d", "e", "=", "7", "4", "4">>>>,
     <<<<"-", "o">>, <<"a", "u", "s", "e", "r">>>>,
     <<<<"-", "-", "o", "w", "n", "e", "r", "=", "a", "u", "s", "e", "r">>>>,
     <<<<"-", "-", "p", "r", "e", "s", "e", "r", "v", "e", "-", "c", "o", "n", "t", "e", "x", "t">>>>,
     <<<<"-", "s">>>>,
     <<<<"-", "-", "s", "t", "r", "i", "p">>>>,
     <<<<"-", "-", "s", "t", "r", "i", "p", "-", "p", "r", "o", "g", "r", "a", "m", "=", "p", "r", "o", "g", "r", "a", "m">>>>,
     <<<<"-", "C", "s">>>>}

\* the operands that follow the options
UnixOperands ==
    {<<>>, <<<<"f", "i", "l", "e", ".", "t", "x", "t">>>>, <<<<"f", "i", "l", "e", ".", "t", "x", "t">>, <<"i", "n", "s", "t", "a", "l", "l", "_", "d", "i", "r">>>>,
     <<<<"i", "n", "s", "t", "a", "l", "l", "_", "d", "i", "r">>, <<"-", "C">>>>}

RECURSIVE Flatten(_)
\* the arguments of a sequence of options, one after the other
Flatten(items) == IF items = <<>> THEN <<>> ELSE Head(items) \o Flatten(Tail(items))

InitUnixOptions ==
    /\ Idle
    /\ \E n \in 0..MaxArgs : \E items \in [1..n -> UnixOptions], operands \in UnixOperands :
        cli = CommandLine(Flatten(items) \o operands,
                          [version_control |-> NoValue, simple_backup_suffix |-> NoValue])

SpecUnixOptions == InitUnixOptions /\ [][NextOptions]_vars

\* the arguments of the tests of uopt::visit: an operand, clusters of short
\* flags, long flags and a long flag with its value
VisitPool ==
    {<<"a", "b", "c">>, <<"-", "d", "e">>, <<"-", "e">>,
     <<"-", "-", "d", "e", "f">>,
     <<"-", "-", "d", "e", "f", "=", "g", "h", "i">>,
     <<"-", "-", "j", "k", "l">>}

\* the overrides of the tests: one name, or every name, answers a hint
FlagOverrides ==
    {Ignore} \cup
    {Override(on, hint) : on \in {NoValue, Some(<<"d">>), Some(<<"e">>), Some(<<"d", "e", "f">>)},
                          hint \in {"StopOptions", "Halt", "Capture"}}

ParameterOverrides ==
    {Ignore} \cup
    {Override(Some(name), hint) : name \in {<<"d">>, <<"d", "e", "f">>}, hint \in {"StopOptions", "Halt"}}

ArgumentOverrides ==
    {Ignore, Override(Some(<<"a", "b", "c">>), "StopOptions"), Override(Some(<<"a", "b", "c">>), "Halt")}

\* uopt::visit is entered with the arguments args and the visitor
Visiting(args, visitor) ==
    [args |-> args, config |-> [version_control |-> NoValue, simple_backup_suffix |-> NoValue],
     next |-> 1, take_options |-> TRUE, visitor |-> visitor, status |-> "visiting",
     result |-> <<>>]

InitVisit ==
    /\ Idle
    /\ \E args \in ArgLists(VisitPool), a \in ArgumentOverrides, f \in FlagOverrides,
          p \in ParameterOverrides :
        cli = Visiting(args, OverridableVisitor(a, f, p))

\* uopt::visit returns to the test, which reads visitor.items()
VisitReturn ==
    /\ IsOverridable(cli.visitor)
    /\ \/ cli.status = "halted"
       \/ cli.status = "visiting" /\ cli.next > Len(cli.args)
    /\ cli' = [cli EXCEPT !.status = "returned", !.result = cli.visitor.items]
    /\ UNCHANGED <<op, fs, idx, ok, err_out, status, result, pre, last, times, now>>

NextVisit == Visit \/ VisitReturn

SpecVisit == InitVisit /\ [][NextVisit]_vars

\* the end of options among an operand, short flags and a long flag
DashPool ==
    {<<"-", "-">>, <<"a", "b", "c">>, <<"-", "e">>, <<"-", "d", "e">>,
     <<"-", "-", "d", "e", "f">>}

\* command lines long enough for an argument before -- and one after it
InitDashes ==
    /\ Idle
    /\ \E n \in 0..(MaxArgs + 1) :
        \E args \in [1..n -> DashPool], a \in ArgumentOverrides, f \in FlagOverrides :
            cli = Visiting(args, OverridableVisitor(a, f, Ignore))

SpecDashes == InitDashes /\ [][NextVisit]_vars

\* long and short options, a cluster, parameters with =, and arguments that
\* only look like options
ClassifyPool ==
    {<<"a", "b", "c">>, <<"-", "1">>, <<"-">>, <<"-", "-", "0", "c">>,
     <<"-", "-", "=", "x">>, <<"-", "d", "e">>, <<"-", "e">>,
     <<"-", "-", "d", "e", "f">>, <<"-", "-", "d", "e", "f", "=">>,
     <<"-", "-", "d", "e", "f", "=", "g", "h", "i">>,
     <<"-", "-", "d", "e", "f", "=", "g", "=", "h">>}

\* a visitor that answers no hint to anything, on up to MaxArgs arguments
InitClassify ==
    /\ Idle
    /\ \E n \in 0..MaxArgs :
        \E args \in [1..n -> ClassifyPool] :
            cli = Visiting(args, OverridableVisitor(Ignore, Ignore, Ignore))

SpecClassify == InitClassify /\ [][NextVisit]_vars

(***************************************************************************)
(* Runs onto destination files whose backup cannot be created.             *)
(***************************************************************************)
\* a read-only directory that holds a writable a.txt, and a writable one
\* where a directory stands in the way of the simple backup a.txt~
GuardedTree ==
    LET locked == join(Container, <<"locked">>)
    IN (locked :> Dir(FALSE))
       @@ (join(locked, <<"a.txt">>) :> RegularFile(OldBytes(1), TRUE, TRUE))
       @@ (DestinationFolder :> Dir(TRUE))
       @@ (DestinationFile :> RegularFile(OldBytes(1), TRUE, TRUE))
       @@ (SimplePath("~") :> Dir(TRUE))
       @@ SourceTree

\* regular files copied onto both directories under every policy
InitGuarded ==
    /\ op \in [files : RegularBatches, destination : {<<"locked">>, Destination},
               backup : Policies, preserve_timestamps : {FALSE},
               make_all_directories : BOOLEAN, verbose : BOOLEAN]
    /\ fs = GuardedTree
    /\ idx = 1
    /\ ok = TRUE
    /\ err_out = <<>>
    /\ status = "running"
    /\ result = <<>>
    /\ pre = fs
    /\ last = NoPass
    /\ times = InitialTimes(fs)
    /\ now = StartOfRun
    /\ cli = NoCommandLine

SpecGuarded == InitGuarded /\ [][Next]_vars

(***************************************************************************)
(* Runs in which the streaming of the bytes may fail.                      *)
(***************************************************************************)
\* regular files copied onto a few destinations
InitCopyFails == InitOver(RegularBatches, FewTrees)

\* one pass of the loop of execute, for files[idx], in which io::copy returns
\* an error after any number of bytes
CopyFails ==
    /\ status = "running"
    /\ idx <= Len(op.files)
    /\ execute_file(fs, op, op.files[idx]).tag = "copied"
    /\ \E n \in 0..Len(content(fs, join(Container, op.files[idx]))) :
        LET r == execute_file_copy_failing(fs, op, op.files[idx], n)
        IN /\ fs' = r.fs
           /\ err_out' = err_out \o r.lines
           /\ ok' = (ok /\ ~r.failed)
           /\ status' = IF r.panicked THEN "panicked" ELSE "running"
           /\ idx' = IF r.panicked THEN idx ELSE idx + 1
           /\ pre' = fs
           /\ last' = [index |-> idx, file |-> op.files[idx], tag |-> r.tag,
                       outcome |-> r.outcome, lines |-> r.lines, failed |-> r.failed,
                       at |-> now, times |-> times]
           /\ times' = times_after(times, fs, r, op, op.files[idx], now)
           /\ now' = now + 1
    /\ UNCHANGED <<op, result, cli>>

NextCopyFails == ProcessFile \/ CopyFails \/ Return

SpecCopyFails == InitCopyFails /\ [][NextCopyFails]_vars

(***************************************************************************)
(* Calls of the closure open_destination, which opens the destination file *)
(* and hands it to Backup::open_for.                                       *)
(***************************************************************************)
\* the destination of one regular file, on every tree and under every policy
InitOpenFor == InitOver({<<<<"s1", "a.txt">>>>}, Trees)

\* open_destination(&destination_file) returns its Result: the error kind,
\* the handle and the outcome
OpenDestination ==
    /\ status = "running"
    /\ LET r == open_destination(fs, op.backup, DestinationFile)
       IN /\ fs' = r.fs
          /\ result' = <<[err |-> r.err, file |-> r.file, outcome |-> r.outcome]>>
    /\ status' = "returned"
    /\ pre' = fs
    /\ UNCHANGED <<op, idx, ok, err_out, last, times, now, cli>>

SpecOpenFor == InitOpenFor /\ [][OpenDestination]_vars

(***************************************************************************)
(* Runs of Operation::CreateDirectories.                                   *)
(***************************************************************************)
\* the directories asked for: of one to three segments, under a writable
\* and under a read-only directory, absolute, and through a regular file
DirectoryArgs ==
    {<<"dest">>, <<"dest", "sub_one", "sub_two">>, <<"top_level">>,
     <<"/", "w", "top_level", "sub">>, <<"locked">>, <<"locked", "invalid">>,
     <<"locked", "sub", "dir">>, <<"s1", "a.txt">>}

InitCreateDirectories ==
    /\ op \in [directories : UNION {[1..n -> DirectoryArgs] : n \in 1..MaxFiles},
               verbose : BOOLEAN]
    /\ fs \in {NestedTree(depth, "none") @@ LockedTree @@ SourceTree : depth \in 0..3}
    /\ idx = 1
    /\ ok = TRUE
    /\ err_out = <<>>
    /\ status = "running"
    /\ result = <<>>
    /\ pre = fs
    /\ last = NoPass
    /\ times = InitialTimes(fs)
    /\ now = StartOfRun
    /\ cli = NoCommandLine

\* one pass of the loop of execute, for directories[idx]
CreateDirectory ==
    /\ status = "running"
    /\ idx <= Len(op.directories)
    /\ LET r == execute_directory(fs, op.verbose, op.directories[idx])
       IN /\ fs' = r.fs
          /\ err_out' = err_out \o r.lines
          /\ ok' = (ok /\ ~r.failed)
          /\ status' = IF r.panicked THEN "panicked" ELSE "running"
          /\ idx' = IF r.panicked THEN idx ELSE idx + 1
          /\ pre' = fs
          /\ last' = [index |-> idx, file |-> op.directories[idx], tag |-> r.tag,
                      outcome |-> r.outcome, lines |-> r.lines, failed |-> r.failed,
                      at |-> now, times |-> times]
          /\ times' = [p \in DOMAIN r.fs |->
                          IF p \in DOMAIN times THEN times[p] ELSE FileTimes(now, now)]
          /\ now' = now + 1
    /\ UNCHANGED <<op, result, cli>>

\* the loop is over: execute returns ok
ReturnDirectories ==
    /\ status = "running"
    /\ idx > Len(op.directories)
    /\ status' = "returned"
    /\ result' = <<ok>>
    /\ UNCHANGED <<op, fs, idx, ok, err_out, pre, last, times, now, cli>>

NextCreateDirectories == CreateDirectory \/ ReturnDirectories

SpecCreateDirectories == InitCreateDirectories /\ [][NextCreateDirectories]_vars

(***************************************************************************)
(* Runs of operations::install.                                            *)
(***************************************************************************)
\* the arguments: relative and absolute ones, through directories that
\* exist, are missing or may not be written, and through a regular file
InstallArgs ==
    {<<"a">>, <<"b", "c">>, <<"dest", "sub_one">>, <<"locked", "b", "c">>,
     <<"s1", "a.txt">>, <<"s1", "a.txt", "x">>, <<"/", "x", "y">>,
     <<"/", "w", "locked", "z">>}

\* install is entered with the arguments and the options, on the base
\* directory of path_override
InitInstall ==
    /\ op \in [arguments : UNION {[1..n -> InstallArgs] : n \in 0..MaxFiles},
               directory_args : BOOLEAN,
               base : {Container, join(Container, <<"locked">>)}]
    /\ fs \in {NestedTree(depth, "none") @@ LockedTree @@ SourceTree : depth \in 0..3}
    /\ idx = 1
    /\ ok = TRUE
    /\ err_out = <<>>
    /\ status = "running"
    /\ result = <<>>
    /\ pre = fs
    /\ last = NoPass
    /\ times = InitialTimes(fs)
    /\ now = StartOfRun
    /\ cli = NoCommandLine

\* one pass of `for arg in arguments`: create_dir_all(&base, &arg)?
InstallDirectory ==
    /\ status = "running"
    /\ op.arguments # <<>>
    /\ op.directory_args
    /\ idx <= Len(op.arguments)
    /\ LET r == install_create_dir_all(fs, op.base, op.arguments[idx], 1)
           failed == r.result # InstallOk
       IN /\ fs' = r.fs
          /\ ok' = (ok /\ ~failed)
          /\ status' = IF failed THEN "returned" ELSE "running"
          /\ result' = IF failed THEN r.result ELSE result
          /\ idx' = IF failed THEN idx ELSE idx + 1
          /\ pre' = fs
          /\ last' = [index |-> idx, file |-> op.arguments[idx],
                      tag |-> IF failed THEN "create_failed" ELSE "created",
                      outcome |-> NoOutcome, lines |-> <<>>, failed |-> failed,
                      at |-> now, times |-> times]
          /\ times' = [p \in DOMAIN r.fs |->
                          IF p \in DOMAIN times THEN times[p] ELSE FileTimes(now, now)]
          /\ now' = now + 1
    /\ UNCHANGED <<op, err_out, cli>>

\* install returns without an error of create_dir_all: no operand, nothing
\* to do, or every argument done
InstallReturn ==
    /\ status = "running"
    /\ \/ op.arguments = <<>>
       \/ ~op.directory_args
       \/ idx > Len(op.arguments)
    /\ status' = "returned"
    /\ result' = IF op.arguments = <<>> THEN MissingOperand("file") ELSE InstallOk
    /\ UNCHANGED <<op, fs, idx, ok, err_out, pre, last, times, now, cli>>

NextInstall == InstallDirectory \/ InstallReturn

SpecInstall == InitInstall /\ [][NextInstall]_vars

(***************************************************************************)
(* Vocabulary of the properties.  pre is the filesystem before the last    *)
(* pass and last describes that pass: its file, how it ended, the lines it *)
(* wrote, the time it was made at and the times of the entries before it.  *)
(***************************************************************************)
Passed == last.index > 0

Copied == last.tag = "copied"

LastSource == join(Container, last.file)

LastDestination == join(DestinationFolder, <<file_name(last.file)>>)

LastNumbered(n) == with_file_name(LastDestination, numbered_name(file_name(last.file), n))

LastSimple(x) == with_file_name(LastDestination, simple_name(file_name(last.file), x))

\* the pass got as far as opening the destination
ReachedDestination == Passed /\ is_file(pre, LastSource) /\ pre[LastSource].readable

\* the numbers of the numbered backups of the last destination in f
NumbersIn(f) == {n \in 1..TopNumber : exists(f, LastNumbered(n))}

\* the lowest number that is free in f
FirstFree(f) == CHOOSE n \in 1..TopNumber :
    n \notin NumbersIn(f) /\ \A m \in 1..(n - 1) : m \in NumbersIn(f)

\* every entry of pre is in fs as it was
Kept(paths) == \A q \in paths : exists(fs, q) /\ fs[q] = pre[q]

\* the bytes the last destination held before the pass
PriorBytes == IF exists(pre, LastDestination) THEN content(pre, LastDestination) ELSE <<>>

\* what the last pass would have left under another policy
Under(backup) == execute_file(pre, [op EXCEPT !.backup = backup], last.file)

(***************************************************************************)
(* C1.  After a pass that copied, under every policy and for every prior   *)
(* state of the destination file, the destination holds exactly the bytes  *)
(* the source held before the pass.                                        *)
(***************************************************************************)
C1_ByteForByte ==
    Copied => content(fs, LastDestination) = content(pre, LastSource)

(***************************************************************************)
(* C2.  When the destination file did not exist before the pass, the pass  *)
(* adds the destination file with the source's bytes (and the destination  *)
(* directory when it was missing) and nothing else, whatever the policy:   *)
(* no backup file is created.                                              *)
(***************************************************************************)
C2_FreshDestination ==
    (Copied /\ ~exists(pre, LastDestination)) =>
        /\ (DOMAIN fs) \ (DOMAIN pre) \subseteq {DestinationFolder, LastDestination}
        /\ content(fs, LastDestination) = content(pre, LastSource)
        /\ Kept(DOMAIN pre)

(***************************************************************************)
(* C3.  Under Numbered, when the destination exists together with the      *)
(* backups numbered 1..n and the backup numbered n+1 does not, the pass    *)
(* creates exactly one file, the backup numbered n+1, holding the          *)
(* destination's prior bytes, and leaves the backups 1..n as they were.    *)
(***************************************************************************)
C3_NextNumber ==
    \A n \in 0..(TopNumber - 1) :
        (/\ Copied
         /\ op.backup = Numbered
         /\ exists(pre, LastDestination)
         /\ \A k \in 1..n : exists(pre, LastNumbered(k))
         /\ ~exists(pre, LastNumbered(n + 1)))
        => /\ (DOMAIN fs) \ (DOMAIN pre) = {LastNumbered(n + 1)}
           /\ content(fs, LastNumbered(n + 1)) = content(pre, LastDestination)
           /\ Kept({LastNumbered(k) : k \in 1..n})

C3_Witness ==
    /\ Copied
    /\ op.backup = Numbered
    /\ exists(pre, LastDestination)
    /\ Len(content(pre, LastDestination)) > 0
    /\ NumbersIn(pre) = {1}
    /\ NumbersIn(fs) = {1, 2}

(***************************************************************************)
(* C4 as stated.  Every backup a Numbered pass creates carries a number    *)
(* n >= 1 above the number of every numbered backup of that name present   *)
(* in the directory.                                                       *)
(***************************************************************************)
C4_AboveEveryNumber ==
    (Copied /\ op.backup = Numbered) =>
        \E n \in 1..TopNumber :
            /\ last.outcome = BackedUp(LastNumbered(n))
            /\ \A m \in NumbersIn(pre) : m < n

(***************************************************************************)
(* C4 amended.  Every backup a Numbered pass creates carries the lowest    *)
(* number n >= 1 whose backup name was free: the name did not exist, no    *)
(* existing numbered backup is touched, and n is above every number in use *)
(* when the numbers in use are 1..k without a gap.                         *)
(***************************************************************************)
C4_FirstFreeNumber ==
    (Copied /\ op.backup = Numbered) =>
        LET n == FirstFree(pre)
        IN /\ last.outcome = BackedUp(LastNumbered(n))
           /\ n >= 1
           /\ ~exists(pre, LastNumbered(n))
           /\ NumbersIn(fs) = NumbersIn(pre) \cup {n}
           /\ Kept({LastNumbered(m) : m \in NumbersIn(pre)})
           /\ (NumbersIn(pre) = 1..Cardinality(NumbersIn(pre))
                  => \A m \in NumbersIn(pre) : m < n)

C4_Witness ==
    /\ Copied
    /\ op.backup = Numbered
    /\ last.index = 2
    /\ NumbersIn(pre) = {1, 2}
    /\ last.outcome = BackedUp(LastNumbered(3))

(***************************************************************************)
(* C5.  Under Existing(suffix) a pass leaves exactly what Numbered leaves  *)
(* (backup path, backup content, directory) when the backup numbered 1     *)
(* exists before it, and exactly what Simple(suffix) leaves when it does   *)
(* not.                                                                    *)
(***************************************************************************)
C5_ExistingDelegates ==
    (ReachedDestination /\ op.backup.kind = "Existing") =>
        LET other == IF exists(pre, LastNumbered(1))
                     THEN Under(Numbered)
                     ELSE Under(Simple(op.backup.ext))
        IN /\ fs = other.fs
           /\ last.outcome = other.outcome
           /\ last.tag = other.tag

C5_Witness ==
    /\ Copied
    /\ op.backup.kind = "Existing"
    /\ exists(pre, LastDestination)
    /\ Len(content(pre, LastDestination)) > 0
    /\ exists(pre, LastNumbered(1))
    /\ exists(pre, LastSimple(op.backup.ext))
    /\ last.outcome.path \in {LastNumbered(n) : n \in 2..TopNumber}

(***************************************************************************)
(* C6 as stated.  Under Existing(suffix) a pass leaves what Numbered       *)
(* leaves whenever a numbered backup of any number exists, and what        *)
(* Simple(suffix) leaves only when none exists.                            *)
(***************************************************************************)
C6_AnyNumberCounts ==
    (ReachedDestination /\ op.backup.kind = "Existing") =>
        LET other == IF NumbersIn(pre) # {}
                     THEN Under(Numbered)
                     ELSE Under(Simple(op.backup.ext))
        IN fs = other.fs /\ last.outcome = other.outcome

(***************************************************************************)
(* C6 amended.  Under Existing(suffix) only the backup numbered 1 counts:  *)
(* when it exists the backup made is the numbered one of the first free    *)
(* number, and when it does not exist the backup made is the simple one,   *)
(* holding the destination's prior bytes, also when backups numbered 2 or  *)
(* above exist.                                                            *)
(***************************************************************************)
C6_OnlyFirstCounts ==
    (ReachedDestination /\ op.backup.kind = "Existing") =>
        IF exists(pre, LastNumbered(1))
        THEN last.outcome = BackedUp(LastNumbered(FirstFree(pre)))
        ELSE /\ last.outcome = BackedUp(LastSimple(op.backup.ext))
             /\ content(fs, LastSimple(op.backup.ext)) = PriorBytes

C6_Witness ==
    /\ Copied
    /\ op.backup.kind = "Existing"
    /\ exists(pre, LastDestination)
    /\ NumbersIn(pre) = {2}
    /\ NumbersIn(fs) = {2}
    /\ last.outcome = BackedUp(LastSimple(op.backup.ext))

(***************************************************************************)
(* C7 as stated.  Under Simple(suffix), when the backup file exists before *)
(* the pass, the relocation fails fatally and the backup file keeps its    *)
(* content.                                                                *)
(***************************************************************************)
C7_ExclusiveCreate ==
    (/\ ReachedDestination
     /\ op.backup.kind = "Simple"
     /\ exists(pre, LastSimple(op.backup.ext)))
    => /\ status = "panicked"
       /\ fs[LastSimple(op.backup.ext)] = pre[LastSimple(op.backup.ext)]

(***************************************************************************)
(* C7 amended.  Under Simple(suffix) the backup file is opened with create *)
(* and truncate: when it exists before the pass, the relocation succeeds,  *)
(* the run does not stop, and the backup file's content is replaced by the *)
(* destination's prior bytes.                                              *)
(***************************************************************************)
C7_CreateOrTruncate ==
    (/\ ReachedDestination
     /\ op.backup.kind = "Simple"
     /\ exists(pre, LastSimple(op.backup.ext)))
    => /\ Copied
       /\ status # "panicked"
       /\ last.outcome = BackedUp(LastSimple(op.backup.ext))
       /\ content(fs, LastSimple(op.backup.ext)) = PriorBytes

C7_Witness ==
    /\ Copied
    /\ op.backup.kind = "Simple"
    /\ exists(pre, LastSimple(op.backup.ext))
    /\ exists(pre, LastDestination)
    /\ content(fs, LastSimple(op.backup.ext)) # content(pre, LastSimple(op.backup.ext))

(***************************************************************************)
(* C8.  Under Simple(suffix), and under Existing(suffix) when the backup   *)
(* numbered 1 is absent, a pass over an existing destination ends with the *)
(* simple backup holding the destination's prior bytes and the destination *)
(* holding the source's bytes, without clearing ok, whether or not the     *)
(* simple backup existed; a run of such passes returns true.               *)
(***************************************************************************)
C8_SimpleBackupMade ==
    /\ (/\ ReachedDestination
        /\ exists(pre, LastDestination)
        /\ \/ op.backup.kind = "Simple"
           \/ op.backup.kind = "Existing" /\ ~exists(pre, LastNumbered(1)))
       => /\ Copied
          /\ ~last.failed
          /\ content(fs, LastSimple(op.backup.ext)) = content(pre, LastDestination)
          /\ content(fs, LastDestination) = content(pre, LastSource)
    /\ (/\ status = "returned"
        /\ op.backup.kind \in {"Simple", "Existing"}
        /\ \A i \in 1..Len(op.files) : op.files[i] \in RegularSources)
       => result = <<TRUE>>

C8_Witness ==
    /\ status = "returned"
    /\ result = <<TRUE>>
    /\ Copied
    /\ op.backup.kind = "Simple"
    /\ exists(pre, LastDestination)
    /\ Len(content(pre, LastDestination)) > Len(content(pre, LastSource))
    /\ exists(pre, LastSimple(op.backup.ext))

(***************************************************************************)
(* C9.  A source operand that is a directory changes nothing in the        *)
(* filesystem, writes the line "winstall: skipping directory '<name>'",    *)
(* makes the run return false, and the files after it are still processed. *)
(***************************************************************************)
C9_DirectorySkipped ==
    /\ (Passed /\ is_dir(pre, LastSource))
       => /\ fs = pre
          /\ last.lines = <<"winstall: skipping directory 'd'">>
          /\ ~ok
          /\ status # "panicked"
          /\ idx = last.index + 1
    /\ \A i \in 1..Len(op.files) :
          (i < idx /\ is_dir(fs, join(Container, op.files[i])))
          => /\ ~ok
             /\ status = "returned" => result = <<FALSE>>
    /\ status = "returned" => last.index = Len(op.files)
    /\ (/\ last.index > 1
        /\ is_dir(pre, join(Container, op.files[last.index - 1]))
        /\ last.file \in RegularSources)
       => Copied

C9_Witness ==
    /\ status = "returned"
    /\ result = <<FALSE>>
    /\ op.files[1] = <<"d">>
    /\ last.index = 2
    /\ last.file = <<"s1", "a.txt">>
    /\ Copied
    /\ err_out[1] = "winstall: skipping directory 'd'"

(***************************************************************************)
(* C10.  A source that cannot be opened, because it does not exist or may  *)
(* not be read, writes one error line naming it, changes nothing in the    *)
(* filesystem (no directory, no destination file, no backup), lets the     *)
(* loop go on to the next file and makes the run return false.             *)
(***************************************************************************)
C10_SourceUnavailable ==
    (/\ Passed
     /\ ~is_dir(pre, LastSource)
     /\ ~(exists(pre, LastSource) /\ pre[LastSource].readable))
    => /\ fs = pre
       /\ last.lines =
            IF ~exists(pre, LastSource)
            THEN <<"winstall: cannot stat 'missing.txt': No such file or directory">>
            ELSE <<"winstall: cannot open 'ro/a.txt' for reading: Permission denied">>
       /\ ~ok
       /\ status # "panicked"
       /\ idx = last.index + 1
       /\ status = "returned" => result = <<FALSE>>

C10_Witness ==
    /\ Passed
    /\ last.file = <<"ro", "a.txt">>
    /\ op.files[1] = <<"missing.txt">>
    /\ op.make_all_directories
    /\ ~exists(fs, DestinationFolder)
    /\ status = "returned"
    /\ result = <<FALSE>>
    /\ Len(err_out) = 2

(***************************************************************************)
(* Vocabulary of the properties about the destination directory.           *)
(***************************************************************************)
\* the destination directory of the run and the file the last pass aims at
OpFolder == join(Container, op.destination)

OpTarget == join(OpFolder, <<file_name(last.file)>>)

\* the first k segments of the destination directory
Segment(k) == join(Container, SubSeq(op.destination, 1, k))

\* the destination directory as the diagnostics print it
DestinationText ==
    CASE op.destination = <<"dest">> -> "dest"
      [] op.destination = <<"dest", "sub_one">> -> "dest/sub_one"
      [] op.destination = <<"dest", "sub_one", "sub_two">> -> "dest/sub_one/sub_two"
      [] op.destination = <<"locked">> -> "locked"
      [] op.destination = <<"locked", "sub">> -> "locked/sub"
      [] op.destination = <<"locked", "sub", "dir">> -> "locked/sub/dir"

\* the pass went on after its file: the loop stands at the next index
WentOn == status # "panicked" /\ idx = last.index + 1

\* an intermediate segment of the destination directory was missing
MissingIntermediate == ~exists(pre, parent(OpFolder))

\* no segment of the destination directory that existed was read-only
NothingLocked ==
    \A k \in 1..Len(op.destination) :
        exists(pre, Segment(k)) => is_dir(pre, Segment(k)) /\ pre[Segment(k)].writable

(***************************************************************************)
(* C11: when an intermediate segment of the destination directory is       *)
(* missing, a pass that reached the directory step with                    *)
(* make_all_directories = false copies nothing, leaves the filesystem as   *)
(* it was, writes exactly "winstall: cannot create regular file            *)
(* '<destination>': No such file or directory", clears the result and goes *)
(* on to the next file; with make_all_directories = true (and no read-only *)
(* segment in the way) the file is copied and every segment of the         *)
(* destination directory exists afterwards.                                *)
(***************************************************************************)
C11_MissingSegments ==
    (ReachedDestination /\ MissingIntermediate) =>
        /\ ~op.make_all_directories =>
            /\ last.tag = "directory_not_found"
            /\ fs = pre
            /\ last.lines = <<"winstall: cannot create regular file '" \o DestinationText
                              \o "': No such file or directory">>
            /\ ~ok
            /\ WentOn
            /\ status = "returned" => result = <<FALSE>>
        /\ (op.make_all_directories /\ NothingLocked) =>
            /\ Copied
            /\ ~last.failed
            /\ \A k \in 1..Len(op.destination) : is_dir(fs, Segment(k))
            /\ content(fs, OpTarget) = content(pre, LastSource)

\* the second file of a batch failed on the missing segments as the first did
C11_Witness ==
    /\ ~op.make_all_directories
    /\ op.destination = <<"dest", "sub_one", "sub_two">>
    /\ last.index = 2
    /\ last.tag = "directory_not_found"
    /\ ~exists(pre, join(Container, <<"dest">>))
    /\ status = "returned"

(***************************************************************************)
(* C12: when the destination directory already exists, the directory step  *)
(* of a pass succeeds under both settings of make_all_directories: no      *)
(* directory is created, neither directory error line is written, the pass *)
(* fails only if the destination file itself cannot be opened, and when it *)
(* can the file is copied and the result is left as it was.  With          *)
(* make_all_directories = false a missing final segment whose parent is a  *)
(* writable directory is created, and it is the only directory created.    *)
(***************************************************************************)
C12_DirectoryStepIdempotent ==
    LET Lines == {last.lines[k] : k \in DOMAIN last.lines}
        Directories(f) == {p \in DOMAIN f : is_dir(f, p)}
        NotFoundLine == "winstall: cannot create regular file '" \o DestinationText
                        \o "': No such file or directory"
        DeniedLine == "winstall: cannot create directory '" \o DestinationText
                      \o "': Permission denied"
        TargetOpens == /\ pre[OpFolder].writable
                       /\ exists(pre, OpTarget) => pre[OpTarget].writable
    IN /\ (ReachedDestination /\ is_dir(pre, OpFolder)) =>
            /\ last.tag \in {"copied", "destination_denied"}
            /\ Directories(fs) = Directories(pre)
            /\ NotFoundLine \notin Lines /\ DeniedLine \notin Lines
            /\ TargetOpens => Copied /\ ~last.failed /\ WentOn
            /\ (TargetOpens /\ last.index = 1) => ok
       /\ (ReachedDestination /\ ~op.make_all_directories /\ ~exists(pre, OpFolder)
           /\ is_dir(pre, parent(OpFolder)) /\ pre[parent(OpFolder)].writable) =>
            /\ Directories(fs) = Directories(pre) \cup {OpFolder}
            /\ Copied /\ ~last.failed

\* the second file of a batch found the directory its predecessor had used,
\* under the non-recursive setting, and the run returned true
C12_Witness ==
    /\ ~op.make_all_directories
    /\ op.destination = <<"dest", "sub_one">>
    /\ last.index = 2
    /\ is_dir(pre, OpFolder)
    /\ Copied
    /\ result = <<TRUE>>

(***************************************************************************)
(* C13: when the destination directory cannot be created because the      *)
(* directory it would be created in is read-only, the pass writes exactly  *)
(* "winstall: cannot create directory '<destination>': Permission denied"; *)
(* when the directory exists and the destination file cannot be opened for *)
(* writing (it is read-only, or it is missing in a read-only directory),   *)
(* the last line of the pass is "winstall: cannot stat '<destination       *)
(* file>': Permission denied".  In both cases the filesystem is left as it *)
(* was, the result is cleared, the loop goes on to the next file and       *)
(* execute returns false.                                                  *)
(***************************************************************************)
C13_PermissionDenied ==
    LET \* the first segment of the destination directory that is missing
        Missing == CHOOSE k \in 1..Len(op.destination) :
                        /\ ~exists(pre, Segment(k))
                        /\ \A j \in 1..(k - 1) : exists(pre, Segment(j))
        DirectoryDenied ==
            /\ ReachedDestination
            /\ ~exists(pre, OpFolder)
            /\ Missing > 1
            /\ is_dir(pre, Segment(Missing - 1))
            /\ ~pre[Segment(Missing - 1)].writable
            /\ op.make_all_directories \/ Missing = Len(op.destination)
        TargetDenied ==
            /\ ReachedDestination
            /\ is_dir(pre, OpFolder)
            /\ IF exists(pre, OpTarget) THEN ~pre[OpTarget].writable
               ELSE ~pre[OpFolder].writable
        Reported ==
            /\ last.failed
            /\ fs = pre
            /\ ~ok
            /\ WentOn
            /\ status = "returned" => result = <<FALSE>>
    IN /\ DirectoryDenied =>
            /\ last.lines = <<"winstall: cannot create directory '" \o DestinationText
                              \o "': Permission denied">>
            /\ Reported
       /\ TargetDenied =>
            /\ Len(last.lines) >= 1
            /\ last.lines[Len(last.lines)] =
                   "winstall: cannot stat '" \o DestinationText \o "/a.txt': Permission denied"
            /\ Reported

\* the second file of a batch was refused its directory under the read-only
\* one as the first was, and execute returned false
C13_Witness ==
    /\ op.destination = <<"locked", "sub">>
    /\ last.index = 2
    /\ last.tag = "directory_denied"
    /\ ReachedDestination
    /\ result = <<FALSE>>

(***************************************************************************)
(* C14: the result starts true; a pass that ends in a reported failure (a  *)
(* directory operand, a source that is missing or may not be read, a       *)
(* destination directory that cannot be created, a destination that may    *)
(* not be opened) clears it and moves the loop to the next file; a pass    *)
(* that copies leaves it as it was, so it never goes back to true; and     *)
(* execute returns it once every file has had its pass.  Hence execute     *)
(* returns true exactly when no file of the batch had a reported failure.  *)
(***************************************************************************)
C14_AggregateResult ==
    [][/\ last.index = 0 => ok
       /\ last'.index # last.index =>
           /\ last'.index = idx
           /\ last'.tag \in {"skipped_directory", "source_not_found", "source_denied",
                             "directory_not_found", "directory_denied",
                             "destination_denied", "copied"} =>
                  /\ ok' = (ok /\ last'.tag = "copied")
                  /\ idx' = idx + 1
                  /\ status' = "running"
       /\ ok' => ok
       /\ status' = "returned" =>
           /\ idx > Len(op.files)
           /\ result' = <<ok>>]_vars

\* a batch whose first file failed and whose second was copied returned false
C14_Witness ==
    /\ status = "returned"
    /\ result = <<FALSE>>
    /\ last.index = 2
    /\ Copied

(***************************************************************************)
(* C15: after a pass that copied, with preserve_timestamps = true the      *)
(* accessed and modified times of the destination are those the source had *)
(* before the pass; with preserve_timestamps = false they are both the     *)
(* time of the pass, which is later than the times the source had.         *)
(***************************************************************************)
C15_DestinationTimes ==
    Copied =>
        IF op.preserve_timestamps
        THEN times[LastDestination] = last.times[LastSource]
        ELSE /\ times[LastDestination] = FileTimes(last.at, last.at)
             /\ last.at > last.times[LastSource].accessed
             /\ last.at > last.times[LastSource].modified

(***************************************************************************)
(* C16: a pass that copied in verbose mode wrote the line "removed         *)
(* '<destination file>'" exactly when the policy was None and the          *)
(* destination file existed before the pass; a pass that was not verbose   *)
(* did not write it.                                                       *)
(***************************************************************************)
C16_RemovedLine ==
    LET Lines == {last.lines[k] : k \in DOMAIN last.lines}
    IN Copied =>
        ("removed 'dest/a.txt'" \in Lines
            <=> (op.verbose /\ op.backup = None /\ exists(pre, LastDestination)))

(***************************************************************************)
(* C17: a pass that copied in verbose mode wrote, as its last line,        *)
(* "'<source>' -> '<destination file>'", followed by " (backup:            *)
(* '<backup file>')" exactly under a policy other than None, where the     *)
(* backup file named is the one the pass made: it exists afterwards, holds *)
(* the bytes the destination held before, and was not there before when it *)
(* is a numbered one.  Under None no backup file appears.  A pass that     *)
(* copied without verbose wrote no line.                                   *)
(***************************************************************************)
C17_SuccessLine ==
    LET SourceText == IF last.file = <<"s1", "a.txt">> THEN "s1/a.txt" ELSE "s2/a.txt"
        numbered_next == op.backup.kind = "Numbered"
                         \/ (op.backup.kind = "Existing" /\ exists(pre, LastNumbered(1)))
        made == IF numbered_next THEN LastNumbered(FirstFree(pre))
                ELSE LastSimple(op.backup.ext)
        BackupText == IF numbered_next
                      THEN "dest/a.txt.~" \o ToString(FirstFree(pre)) \o "~"
                      ELSE "dest/a.txt" \o op.backup.ext
        Line == "'" \o SourceText \o "' -> 'dest/a.txt'"
    IN Copied =>
        /\ ~op.verbose => last.lines = <<>>
        /\ op.verbose =>
            /\ Len(last.lines) >= 1
            /\ last.lines[Len(last.lines)] =
                   IF op.backup = None THEN Line
                   ELSE Line \o " (backup: '" \o BackupText \o "')"
        /\ op.backup = None =>
            DOMAIN fs \ DOMAIN pre \subseteq {DestinationFolder, LastDestination}
        /\ op.backup # None =>
            /\ exists(fs, made)
            /\ content(fs, made) = PriorBytes
            /\ numbered_next => ~exists(pre, made)
            /\ DOMAIN fs \ DOMAIN pre \subseteq {DestinationFolder, LastDestination, made}

\* a verbose pass under Numbered announced the backup numbered 2 it made of
\* an existing destination
C17_Witness ==
    /\ Copied
    /\ op.verbose
    /\ op.backup = Numbered
    /\ exists(pre, LastDestination)
    /\ NumbersIn(pre) = {1}
    /\ last.lines[Len(last.lines)] = "'s1/a.txt' -> 'dest/a.txt' (backup: 'dest/a.txt.~2~')"

(***************************************************************************)
(* C18: a pass leaves every regular file listed in files with the content  *)
(* it had before the pass, under every policy.                             *)
(***************************************************************************)
C18_SourcesUntouched ==
    Passed =>
        \A k \in 1..Len(op.files) :
            LET source == join(Container, op.files[k])
            IN is_file(pre, source) =>
                /\ is_file(fs, source)
                /\ content(fs, source) = content(pre, source)

(***************************************************************************)
(* Vocabulary of the properties about the command line.                    *)
(***************************************************************************)
\* get_options has returned
Returned == cli.status = "returned"

\* the argument is an option about the backup policy
IsBackupOption(a) == a = <<"-", "b">> \/ starts_with(a, <<"-", "-", "b", "a", "c", "k", "u", "p">>)

\* the policy the table gives for a value
Mapped(x) ==
    CASE x \in {<<"n", "o", "n", "e">>, <<"o", "f", "f">>} -> "None"
      [] x \in {<<"s", "i", "m", "p", "l", "e">>, <<"n", "e", "v", "e", "r">>} -> "Simple"
      [] x \in {<<"e", "x", "i", "s", "t", "i", "n", "g">>, <<"n", "i", "l">>} -> "Existing"
      [] x \in {<<"n", "u", "m", "b", "e", "r", "e", "d">>, <<"t">>} -> "Numbered"

\* get_options returned Ok with this policy
Resolves(policy) == cli.result.kind = "Ok" /\ cli.result.options.backup_type = policy

(***************************************************************************)
(* C19: once get_options has returned, a command line without a backup     *)
(* option gave the policy None; and a command line whose first argument is *)
(* its only backup option gave: for --backup=X, the policy the table maps  *)
(* X to, whatever $VERSION_CONTROL holds, or Err(InvalidArgument(X,        *)
(* "backup type")) when X is not in the table; for -b and for --backup     *)
(* without =X, the policy the table maps $VERSION_CONTROL to,              *)
(* Err(InvalidArgument(value, "$VERSION_CONTROL")) when its value is not   *)
(* in the table, and Existing when it is unset.                            *)
(***************************************************************************)
C19_BackupPolicy ==
    LET args == cli.args
        version_control == cli.config.version_control
        options == {k \in 1..Len(args) : IsBackupOption(args[k])}
        X == SubSeq(args[1], 10, Len(args[1]))
    IN Returned =>
        /\ options = {} => Resolves("None")
        /\ options = {1} =>
            IF starts_with(args[1], <<"-", "-", "b", "a", "c", "k", "u", "p", "=">>)
            THEN IF X \in BackupValues THEN Resolves(Mapped(X))
                 ELSE cli.result = Err(InvalidArgument(X, "backup type"))
            ELSE IF version_control = NoValue THEN Resolves("Existing")
                 ELSE IF version_control[1] \in BackupValues
                     THEN Resolves(Mapped(version_control[1]))
                 ELSE cli.result = Err(InvalidArgument(version_control[1],
                                                       "$VERSION_CONTROL"))

\* the argument is an option about the backup suffix
IsSuffixOption(a) == starts_with(a, <<"-", "S">>) \/ starts_with(a, <<"-", "-", "s", "u", "f", "f", "i", "x">>) \/ a = <<"-", "v", "S">>

\* get_options returned Ok with this suffix
Suffixed(suffix) == cli.result.kind = "Ok" /\ cli.result.options.backup_suffix = suffix

(***************************************************************************)
(* C20: once get_options has returned, a command line that begins with its *)
(* only suffix option, written -S <v> or --suffix=<v>, gave the suffix v   *)
(* ("~" when v is empty), whatever $SIMPLE_BACKUP_SUFFIX holds; a command  *)
(* line without a suffix option gave $SIMPLE_BACKUP_SUFFIX when it is set  *)
(* and "~" when it is not.                                                 *)
(***************************************************************************)
C20_BackupSuffix ==
    LET args == cli.args
        environment == cli.config.simple_backup_suffix
        Given(v) == IF v = <<>> THEN <<"~">> ELSE v
        NoneFrom(k) == \A j \in k..Len(args) : ~IsSuffixOption(args[j])
    IN Returned =>
        /\ NoneFrom(1) =>
            Suffixed(IF environment # NoValue THEN environment[1] ELSE <<"~">>)
        /\ (Len(args) >= 2 /\ args[1] = <<"-", "S">> /\ NoneFrom(3)) =>
            Suffixed(Given(args[2]))
        /\ (Len(args) >= 1 /\ starts_with(args[1], <<"-", "-", "s", "u", "f", "f", "i", "x", "=">>) /\ NoneFrom(2)) =>
            Suffixed(Given(SubSeq(args[1], 10, Len(args[1]))))

(***************************************************************************)
(* Vocabulary of the properties about operands: the command line read by   *)
(* the rules of the option syntax, without the walk of uopt::visit.        *)
(***************************************************************************)
RECURSIVE OptionPositions(_, _)
\* the positions, from k on, of the options that stand before the first
\* operand: -v and -D stand alone, -S and -t take the next argument
OptionPositions(args, k) ==
    IF k > Len(args) THEN {}
    ELSE IF args[k] \in {<<"-", "v">>, <<"-", "D">>} THEN {k} \cup OptionPositions(args, k + 1)
    ELSE IF args[k] \in {<<"-", "S">>, <<"-", "t">>} THEN {k} \cup OptionPositions(args, k + 2)
    ELSE {}

RECURSIVE FirstOperand(_, _)
\* the position, from k on, of the first operand: the first argument that is
\* no option and no value of one, or the argument after --
FirstOperand(args, k) ==
    IF k > Len(args) THEN Len(args) + 1
    ELSE IF args[k] = <<"-", "-">> THEN k + 1
    ELSE IF args[k] \in {<<"-", "v">>, <<"-", "D">>} THEN FirstOperand(args, k + 1)
    ELSE IF args[k] \in {<<"-", "S">>, <<"-", "t">>} THEN FirstOperand(args, k + 2)
    ELSE k

\* the value of the last option named flag that stands before the operands
LastValue(args, flag) ==
    LET at == {k \in OptionPositions(args, 1) : args[k] = flag /\ k < Len(args)}
    IN IF at = {} THEN NoValue
       ELSE Some(args[(CHOOSE k \in at : \A j \in at : j <= k) + 1])

(***************************************************************************)
(* C21: get_options returns Ok; its operands are the arguments from the    *)
(* first operand to the end of the command line, in order and unchanged,   *)
(* option-looking ones included, and never the value of -S or -t; and its  *)
(* options are set by the options that stand before the first operand      *)
(* only.                                                                   *)
(***************************************************************************)
C21_Operands ==
    LET args == cli.args
        first == FirstOperand(args, 1)
        before == {args[k] : k \in OptionPositions(args, 1)}
        suffix == LastValue(args, <<"-", "S">>)
    IN Returned =>
        /\ cli.result.kind = "Ok"
        /\ cli.result.arguments =
               IF first > Len(args) THEN <<>> ELSE SubSeq(args, first, Len(args))
        /\ cli.result.options =
               [DefaultOptions EXCEPT
                   !.verbose = <<"-", "v">> \in before,
                   !.create_parents = <<"-", "D">> \in before,
                   !.backup_suffix = IF suffix = NoValue THEN <<"~">> ELSE suffix[1],
                   !.target_directory = LastValue(args, <<"-", "t">>)]

\* -S took abc as its value, a.txt was the first operand and the -D after it
\* came back as an operand without setting create_parents
C21_Witness ==
    /\ Returned
    /\ cli.args = <<<<"-", "S">>, <<"a", "b", "c">>, <<"a", ".", "t", "x", "t">>, <<"-", "D">>>>
    /\ cli.result.arguments = <<<<"a", ".", "t", "x", "t">>, <<"-", "D">>>>
    /\ ~cli.result.options.create_parents
    /\ cli.result.options.backup_suffix = <<"a", "b", "c">>

(***************************************************************************)
(* Vocabulary of the properties about the walk of uopt::visit.             *)
(***************************************************************************)
\* the callbacks made so far, in order
Calls == cli.visitor.calls

\* the value is set and is not in the backup table
Unmapped(value) == value # NoValue /\ value[1] \notin BackupValues

\* the callback, as recorded in Calls, answered Halt
Halts(call) ==
    \/ call \in {<<"flag", <<"h", "e", "l", "p">>>>, <<"flag", <<"v", "e", "r", "s", "i", "o", "n">>>>}
    \/ call = <<"flag", <<"b">>>> /\ Unmapped(cli.config.version_control)
    \/ /\ call[1] = "parameter"
       /\ call[2] = <<"b", "a", "c", "k", "u", "p">>
       /\ \/ Unmapped(call[3])
          \/ call[3] = NoValue /\ Unmapped(cli.config.version_control)

(***************************************************************************)
(* C22: no callback is made after a callback that answered Halt, and a     *)
(* command line that begins with --help (--version) makes get_options      *)
(* return Ok without operands and with the default options but for the     *)
(* action Help (Version), whatever follows.                                *)
(***************************************************************************)
C22_HaltStops ==
    /\ \A k \in 1..(Len(Calls) - 1) : ~Halts(Calls[k])
    /\ (Returned /\ Len(cli.args) >= 1 /\ cli.args[1] = <<"-", "-", "h", "e", "l", "p">>) =>
        cli.result = Ok(<<>>, [DefaultOptions EXCEPT !.alternate = "Help"])
    /\ (Returned /\ Len(cli.args) >= 1 /\ cli.args[1] = <<"-", "-", "v", "e", "r", "s", "i", "o", "n">>) =>
        cli.result = Ok(<<>>, [DefaultOptions EXCEPT !.alternate = "Version"])

\* the hint that the visitor of the tests answered to the callback
Answered(call) ==
    IF call[1] = "argument" THEN Answer(cli.visitor.override_visit_argument, call[2])
    ELSE IF call[1] = "flag" THEN Answer(cli.visitor.override_visit_flag, call[2])
    ELSE Answer(cli.visitor.override_visit_parameter, call[2])

\* a callback made for an earlier argument answered StopOptions
StoppedEarlier == \E k \in 1..Len(Calls) : Answered(Calls[k]) = "StopOptions"

\* uopt::visit is about to take the next argument
Taking == cli.status = "visiting" /\ cli.next <= Len(cli.args)

\* the callbacks that deliver every character of the cluster as a flag
AsFlags(cluster) == [k \in 1..Len(cluster) |-> <<"flag", <<cluster[k]>>>>]

(***************************************************************************)
(* C23: once a callback has answered StopOptions, every later argument is  *)
(* delivered as it is through visit_argument, also one that starts with -  *)
(* or --; and a cluster of short flags none of which answers Capture or    *)
(* Halt is delivered flag by flag to its end, also after one of them       *)
(* answered StopOptions.                                                   *)
(***************************************************************************)
C23_StopOptions ==
    [][(Taking /\ IsOverridable(cli.visitor)) =>
        LET argument == cli.args[cli.next]
            cluster == SubSeq(argument, 2, Len(argument))
        IN /\ StoppedEarlier =>
                cli'.visitor.calls = Append(Calls, <<"argument", argument>>)
           /\ (/\ ~StoppedEarlier
               /\ cli.take_options
               /\ is_short(argument)
               /\ \A k \in 1..Len(cluster) :
                    Answer(cli.visitor.override_visit_flag, <<cluster[k]>>)
                        \in {"None", "StopOptions"}) =>
                cli'.visitor.calls = Calls \o AsFlags(cluster)]_vars

\* the hint that the visitor of the tests answers for the short flag
FlagAnswer(c) == Answer(cli.visitor.override_visit_flag, <<c>>)

\* the position of the flag of the cluster that is asked first and answers
\* Capture, no flag before it having answered Halt; 0 when there is none
Capturing(cluster) ==
    IF \E f \in 1..Len(cluster) :
          /\ FlagAnswer(cluster[f]) = "Capture"
          /\ \A k \in 1..(f - 1) : FlagAnswer(cluster[k]) \in {"None", "StopOptions"}
    THEN CHOOSE f \in 1..Len(cluster) :
          /\ FlagAnswer(cluster[f]) = "Capture"
          /\ \A k \in 1..(f - 1) : FlagAnswer(cluster[k]) \in {"None", "StopOptions"}
    ELSE 0

(***************************************************************************)
(* C24: when visit_flag answers Capture for the short flag f of a cluster, *)
(* the flags before f and f itself are the only flags asked, and then      *)
(* visit_parameter is called with the name f: with the rest of the cluster *)
(* when characters follow f, else with the argument that follows, which is *)
(* then passed over, or with None when no argument follows.                *)
(***************************************************************************)
C24_ShortCapture ==
    [][(Taking /\ IsOverridable(cli.visitor)) =>
        LET argument == cli.args[cli.next]
            cluster == SubSeq(argument, 2, Len(argument))
            f == Capturing(cluster)
            following == IF cli.next < Len(cli.args) THEN Some(cli.args[cli.next + 1])
                         ELSE NoValue
        IN (cli.take_options /\ is_short(argument) /\ f > 0) =>
            IF f < Len(cluster)
            THEN /\ cli'.visitor.calls =
                        Calls \o AsFlags(SubSeq(cluster, 1, f))
                              \o <<<<"parameter", <<cluster[f]>>,
                                     Some(SubSeq(cluster, f + 1, Len(cluster)))>>>>
                 /\ cli'.status = "visiting" => cli'.next = cli.next + 1
            ELSE /\ cli'.visitor.calls =
                        Calls \o AsFlags(cluster)
                              \o <<<<"parameter", <<cluster[f]>>, following>>>>
                 /\ cli'.status = "visiting" => cli'.next = cli.next + 2]_vars

(***************************************************************************)
(* Vocabulary of the properties about Operation::CreateDirectories.        *)
(***************************************************************************)
\* the path and every path above it, the root apart
Chain(p) == {SubSeq(p, 1, k) : k \in 2..Len(p)}

\* the directory of the last pass, under the container
LastDirectory == join(Container, last.file)

\* no path of the chain was anything but a directory before the pass
Unobstructed == \A q \in Chain(LastDirectory) : exists(pre, q) => is_dir(pre, q)

\* the paths of the chain that were missing before the pass
Missing == {q \in Chain(LastDirectory) : ~exists(pre, q)}

\* the deepest directory of the chain that existed before the pass
Deepest ==
    CHOOSE q \in Chain(LastDirectory) \cup {<<"/">>} :
        /\ exists(pre, q)
        /\ \A r \in Chain(LastDirectory) : exists(pre, r) => Len(r) <= Len(q)

DeniedLine(directory) ==
    "winstall: cannot create directory " \o Quoted(strip_prefix(directory, Container))
        \o ": Permission denied"

(***************************************************************************)
(* C25: a pass of CreateDirectories over a directory whose chain holds no  *)
(* file either creates every missing directory of the chain and nothing    *)
(* else (nothing at all when the directory exists), or, when the deepest   *)
(* existing directory may not be written, writes the line "cannot create   *)
(* directory '<path>': Permission denied", clears ok and goes on with the  *)
(* next directory; execute returns true exactly when no such line was      *)
(* written.                                                                *)
(***************************************************************************)
C25_CreateDirectories ==
    /\ (last.index > 0 /\ Unobstructed) =>
        /\ status # "panicked"
        /\ idx = last.index + 1
        /\ IF Missing = {} \/ pre[Deepest].writable
           THEN /\ ~last.failed
                /\ DOMAIN fs = DOMAIN pre \cup Missing
                /\ \A q \in Missing : is_dir(fs, q)
                /\ \A q \in DOMAIN pre : fs[q] = pre[q]
                /\ \A k \in 1..Len(last.lines) : last.lines[k] # DeniedLine(last.file)
           ELSE /\ last.failed
                /\ last.lines = <<DeniedLine(last.file)>>
                /\ fs = pre
    /\ ok <=> \A k \in 1..Len(err_out) :
                \A d \in DirectoryArgs : err_out[k] # DeniedLine(d)
    /\ status = "returned" => result = <<ok>>

\* a directory was denied, a later one was created with its parents, and
\* execute returned false
C25_Witness ==
    /\ status = "returned"
    /\ result = <<FALSE>>
    /\ last.index = 2
    /\ ~last.failed
    /\ Cardinality(Missing) >= 2

(***************************************************************************)
(* Vocabulary of the properties about operations::install.                 *)
(***************************************************************************)
\* the first k components of the argument of the last pass
Traversed(k) == SubSeq(last.file, 1, k)

\* what a pass of install over an argument does, Place(k) being where the
\* first k components of the argument are to be found: the components that
\* were missing are created as directories when the place above the first
\* of them is a directory that may be written, and else nothing changes and
\* install returns DirectoryPermissionDenied with the components before it;
\* install returns Ok after the last argument
InstallPass(Place(_)) ==
    /\ last.index > 0 =>
        LET n == Len(last.file)
            missing == {k \in 1..n : ~exists(pre, Place(k))}
            m == CHOOSE k \in missing : \A j \in missing : k <= j
        IN IF missing = {} THEN ~last.failed /\ fs = pre
           ELSE IF is_dir(pre, parent(Place(m))) /\ pre[parent(Place(m))].writable
           THEN /\ ~last.failed
                /\ DOMAIN fs = DOMAIN pre \cup {Place(k) : k \in m..n}
                /\ \A k \in m..n : is_dir(fs, Place(k))
                /\ \A q \in DOMAIN pre : fs[q] = pre[q]
           ELSE /\ last.failed
                /\ fs = pre
                /\ status = "returned"
                /\ result = DirectoryPermissionDenied(display(Traversed(m - 1)))
                /\ idx = last.index
    /\ (status = "returned" /\ op.directory_args /\ op.arguments # <<>> /\ ~last.failed) =>
        /\ result = InstallOk
        /\ last.index = Len(op.arguments)

(***************************************************************************)
(* C26, as stated: install with directory_args creates the components of   *)
(* every argument, in turn, under the base directory, an existing          *)
(* component being success, and returns Ok after the last argument; when a *)
(* component cannot be created it returns DirectoryPermissionDenied(p), p  *)
(* being the components traversed before it.                               *)
(***************************************************************************)
C26_UnderBase == InstallPass(LAMBDA k : op.base \o Traversed(k))

(***************************************************************************)
(* C26, amended: the components are created under the base directory for a *)
(* relative argument and at the argument's own path for an absolute one    *)
(* (base.join(target)); the rest as stated.                                *)
(***************************************************************************)
C26_ComponentsCreated == InstallPass(LAMBDA k : join(op.base, Traversed(k)))

\* the components of a first argument were created, and the second argument
\* failed at a component after its first
C26_Witness ==
    /\ status = "returned"
    /\ last.index = 2
    /\ last.failed
    /\ result = DirectoryPermissionDenied("locked")
    /\ op.arguments[1] = <<"b", "c">>
    /\ is_dir(fs, join(op.base, <<"b", "c">>))

(***************************************************************************)
(* Vocabulary of the properties about open_destination.                    *)
(***************************************************************************)
\* open_destination has returned Ok with a backup made
Relocated ==
    status = "returned" /\ result[1].err = "Ok" /\ result[1].outcome.kind = "BackedUp"

\* the bytes the destination held before the call
BytesBefore == IF exists(pre, DestinationFile) THEN content(pre, DestinationFile) ELSE <<>>

(***************************************************************************)
(* C27: when open_destination returns with a backup made, the backup holds *)
(* the bytes the destination held before the call, and the handle returned *)
(* is the destination's, of length 0 and at offset 0, so that the copy     *)
(* that follows leaves exactly the bytes of the source in the destination. *)
(***************************************************************************)
C27_Relocated ==
    Relocated =>
        LET to == result[1].file
            from == open(fs, join(Container, <<"s1", "a.txt">>), ReadOnly).file
        IN /\ content(fs, result[1].outcome.path) = BytesBefore
           /\ to.path = DestinationFile
           /\ content(fs, DestinationFile) = <<>>
           /\ to.pos = 0
           /\ content(io_copy(fs, from, to).fs, DestinationFile)
                = content(fs, join(Container, <<"s1", "a.txt">>))

\* a destination longer than the source was moved to a simple backup
C27_Witness ==
    /\ Relocated
    /\ Len(BytesBefore) = MaxLen
    /\ op.backup.kind = "Simple"
    /\ content(fs, result[1].outcome.path) = BytesBefore

\* the backup files of the destination that are present in f: everything in
\* the destination directory but the destination file
BackupsIn(f) == {p \in DOMAIN f : Len(p) > 1 /\ parent(p) = DestinationFolder} \ {DestinationFile}

(***************************************************************************)
(* C28: a call of open_destination, and so of Backup::open_for, leaves     *)
(* every backup file that was present in place and adds at most one; it    *)
(* adds none when it returns without a backup made.                        *)
(***************************************************************************)
C28_AtMostOneBackup ==
    status = "returned" =>
        /\ BackupsIn(pre) \subseteq BackupsIn(fs)
        /\ Cardinality(BackupsIn(fs) \ BackupsIn(pre)) <= 1
        /\ ~Relocated => BackupsIn(fs) = BackupsIn(pre)
        /\ DOMAIN fs \subseteq DOMAIN pre \cup BackupsIn(fs) \cup {DestinationFile}

\* a numbered backup was added next to every prior backup
C28_Witness ==
    /\ Relocated
    /\ op.backup.kind = "Numbered"
    /\ Cardinality(BackupsIn(pre)) = MaxPrior + 2
    /\ Cardinality(BackupsIn(fs)) = MaxPrior + 3

\* the destination file of the last pass could be opened, and the backup
\* policy could not create its backup file
BackupNotCreated ==
    /\ Passed
    /\ last.tag \in {"destination_denied", "panic_open_destination"}
    /\ op.backup.kind # "None"
    /\ is_file(pre, OpTarget)
    /\ pre[OpTarget].readable /\ pre[OpTarget].writable

(***************************************************************************)
(* C29: when the backup file of a destination cannot be created, for a     *)
(* reason other than that it exists already, the run stops in that pass:   *)
(* no failure is reported for the file, ok is left alone and no later file *)
(* is processed.                                                           *)
(***************************************************************************)
C29_BackupFailureFatal ==
    BackupNotCreated =>
        /\ status = "panicked"
        /\ idx = last.index
        /\ ~last.failed
        /\ \A k \in 1..Len(last.lines) :
            last.lines[k] # "winstall: cannot stat "
                                \o Quoted(strip_prefix(OpTarget, Container))
                                \o ": Permission denied"

(***************************************************************************)
(* C30: a pass in which the streaming of the bytes fails ends the run: the *)
(* index stays on that file, ok is left alone, no result is returned, the  *)
(* line 'source' -> 'destination' is not written, and no step follows.     *)
(***************************************************************************)
C30_CopyFailureFatal ==
    [][/\ last.tag # "panic_copy"
       /\ last'.tag = "panic_copy" =>
            /\ status' = "panicked"
            /\ idx' = idx
            /\ ok' = ok
            /\ result' = <<>>
            /\ \A k \in 1..Len(last'.lines) :
                last'.lines[k] \notin
                    {Quoted(last'.file) \o " -> "
                        \o Quoted(join(op.destination, <<file_name(last'.file)>>)) \o x :
                     x \in {""} \cup {" (backup: " \o Quoted(strip_prefix(p, Container)) \o ")" :
                                        p \in DOMAIN fs'}}]_vars

\* the streaming of the first of two files failed after a backup was made
C30_Witness ==
    /\ last.tag = "panic_copy"
    /\ last.index = 1
    /\ Len(op.files) = 2
    /\ last.outcome.kind = "BackedUp"
    /\ status = "panicked"

(***************************************************************************)
(* Vocabulary of the property about the order of the files.                *)
(***************************************************************************)
\* the paths a pass over the file may create or write: the destination
\* directory, the destination file and its backups
Own(file) ==
    LET destination_file == join(OpFolder, <<file_name(file)>>)
    IN {OpFolder, destination_file}
       \cup {with_file_name(destination_file, numbered_name(file_name(file), n)) :
                n \in 1..TopNumber}
       \cup {with_file_name(destination_file, simple_name(file_name(file), x)) :
                x \in Suffixes}

\* the entries that differ between the filesystems, or the times, f and g
Differing(f, g) ==
    {p \in DOMAIN f \cup DOMAIN g : p \notin DOMAIN f \/ p \notin DOMAIN g \/ f[p] # g[p]}

(***************************************************************************)
(* C31: every step of the run is the whole pass over the next file of the  *)
(* list, after the pass over the file before it: it changes the entries    *)
(* and the times of that file's destination only (and the accessed time of *)
(* its source), appends that file's lines after every earlier line and     *)
(* moves to the file after it, unless the run stops there; the step that   *)
(* returns changes nothing.                                                *)
(***************************************************************************)
C31_InOrder ==
    [][IF idx <= Len(op.files)
       THEN /\ last.index = idx - 1
            /\ last'.index = idx
            /\ last'.file = op.files[idx]
            /\ idx' = idx + 1 \/ (status' = "panicked" /\ idx' = idx)
            /\ err_out' = err_out \o last'.lines
            /\ pre' = fs
            /\ Differing(fs, fs') \subseteq Own(op.files[idx])
            /\ Differing(times, times')
                \subseteq Own(op.files[idx]) \cup {join(Container, op.files[idx])}
       ELSE /\ fs' = fs
            /\ err_out' = err_out
            /\ times' = times
            /\ idx' = idx
            /\ status' = "returned"]_vars

\* the second of two files was copied over the copy of the first, and both
\* passes wrote their lines
C31_Witness ==
    /\ last.index = 2
    /\ Copied
    /\ last.lines # <<>>
    /\ Len(err_out) > Len(last.lines)
    /\ op.files[1] # op.files[2]
    /\ status = "returned"

(***************************************************************************)
(* C32: once get_options has returned, a command line made of --backup and *)
(* one more argument gave the policy the table maps $VERSION_CONTROL to    *)
(* (Existing when it is unset, Err(InvalidArgument(value,                  *)
(* "$VERSION_CONTROL")) when its value is not in the table), and the       *)
(* argument after --backup was handled as if it stood alone: -v set        *)
(* verbose and a.txt was returned as the operand.                          *)
(***************************************************************************)
C32_BackupTakesNoArgument ==
    LET args == cli.args
        version_control == cli.config.version_control
    IN (/\ Returned
        /\ Len(args) = 2
        /\ args[1] = <<"-", "-", "b", "a", "c", "k", "u", "p">>
        /\ args[2] \in {<<"-", "v">>, <<"a", ".", "t", "x", "t">>}) =>
        IF Unmapped(version_control)
        THEN cli.result = Err(InvalidArgument(version_control[1], "$VERSION_CONTROL"))
        ELSE /\ Resolves(IF version_control = NoValue THEN "Existing"
                         ELSE Mapped(version_control[1]))
             /\ cli.result.options.verbose = (args[2] = <<"-", "v">>)
             /\ cli.result.arguments = IF args[2] = <<"a", ".", "t", "x", "t">> THEN <<args[2]>> ELSE <<>>

\* where the operands of the command line begin: at its first argument that
\* is file.txt or install_dir, or after its end
OperandsFrom(args) ==
    IF \E k \in 1..Len(args) : args[k] \in {<<"f", "i", "l", "e", ".", "t", "x", "t">>, <<"i", "n", "s", "t", "a", "l", "l", "_", "d", "i", "r">>}
    THEN CHOOSE k \in 1..Len(args) :
            /\ args[k] \in {<<"f", "i", "l", "e", ".", "t", "x", "t">>, <<"i", "n", "s", "t", "a", "l", "l", "_", "d", "i", "r">>}
            /\ \A j \in 1..(k - 1) : args[j] \notin {<<"f", "i", "l", "e", ".", "t", "x", "t">>, <<"i", "n", "s", "t", "a", "l", "l", "_", "d", "i", "r">>}
    ELSE Len(args) + 1

(***************************************************************************)
(* C33: once get_options has returned on a command line of Unix-specific   *)
(* options, with their values, followed by operands, the result is Ok with *)
(* every option at its default and with exactly the operands, in order.    *)
(***************************************************************************)
C33_UnixOptionsIgnored ==
    Returned =>
        cli.result = Ok(SubSeq(cli.args, OperandsFrom(cli.args), Len(cli.args)),
                        DefaultOptions)

\* an option with its value as the following argument, another option and
\* two operands went through
C33_Witness ==
    /\ Returned
    /\ Len(cli.args) = 5
    /\ cli.args[1] = <<"-", "g">>
    /\ cli.args[3] = <<"-", "-", "m", "o", "d", "e", "=", "7", "4", "4">>
    /\ cli.result.arguments = <<<<"f", "i", "l", "e", ".", "t", "x", "t">>, <<"i", "n", "s", "t", "a", "l", "l", "_", "d", "i", "r">>>>

\* the argument about to be taken
Current == cli.args[cli.next]

\* once options are no longer taken, every argument goes through
\* visit_argument as it is, and options are never taken again
DeliveredAfterwards ==
    (Taking /\ ~cli.take_options) =>
        /\ cli'.visitor.calls = Append(Calls, <<"argument", Current>>)
        /\ ~cli'.take_options

\* the walk passes over -- without a callback and stops taking options
PassedOver == cli'.visitor.calls = Calls /\ ~cli'.take_options /\ cli'.next = cli.next + 1

FirstEquals(s) ==
    IF \E k \in 1..Len(s) : s[k] = "="
    THEN CHOOSE k \in 1..Len(s) : s[k] = "=" /\ \A j \in 1..(k - 1) : s[j] # "="
    ELSE 0

\* the callbacks an argument stands for while options are taken
Classified(argument) ==
    LET long == SubSeq(argument, 3, Len(argument))
        short == SubSeq(argument, 2, Len(argument))
    IN IF Len(argument) > 2 /\ SubSeq(argument, 1, 2) = <<"-", "-">> /\ is_alphabetic(argument[3])
       THEN IF FirstEquals(long) = 0 THEN <<<<"flag", long>>>>
            ELSE <<<<"parameter", SubSeq(long, 1, FirstEquals(long) - 1),
                     Some(SubSeq(long, FirstEquals(long) + 1, Len(long)))>>>>
       ELSE IF Len(argument) > 1 /\ argument[1] = "-" /\ is_alphabetic(argument[2])
       THEN [k \in 1..Len(short) |-> <<"flag", <<short[k]>>>>]
       ELSE <<<<"argument", argument>>>>

(***************************************************************************)
(* C35: while options are taken, an argument other than -- is a long       *)
(* option only if the character after -- is alphabetic and a short cluster *)
(* only if the character after - is alphabetic, and goes through           *)
(* visit_argument otherwise; --name=value is delivered as                  *)
(* visit_parameter(name, Some(value)), an empty value as Some("");         *)
(* every character of a cluster is delivered as a flag of its own, in      *)
(* order.                                                                  *)
(***************************************************************************)
C35_Classified ==
    [][(Taking /\ cli.take_options /\ Current # <<"-", "-">>) =>
            cli'.visitor.calls = Calls \o Classified(Current)]_vars

====
